---- MODULE Spec2Model ----
(***************************************************************************)
(* Model of the webview RPC bridge (src/webview.h): the JSON micro-parser  *)
(* used by on_message, the binding table, resolve and the dispatch queue   *)
(* drained by the UI thread, together with the script side that the        *)
(* injected binding functions create (window._rpc and its promises).       *)
(*                                                                         *)
(* Text is modelled as sequences of byte values (0..255); a C pointer into *)
(* a buffer is the 1-based index of the byte it points to, the null        *)
(* pointer is 0.                                                           *)
(***************************************************************************)
EXTENDS Integers, Sequences, FiniteSets, TLC

(***************************************************************************)
(* Text helpers                                                            *)
(***************************************************************************)

\* the bytes s[a..b] (empty when b < a)
Span(s, a, b) == [i \in 1..(b - a + 1) |-> s[a + i - 1]]

\* does pattern p occur in s at position i
Matches(s, p, i) ==
  /\ i >= 1
  /\ i + Len(p) - 1 <= Len(s)
  /\ \A j \in 1..Len(p) : s[i + j - 1] = p[j]

\* position of the first occurrence of p in s at or after from; 0 when none
Find(s, p, from) ==
  LET hits == {i \in from..(Len(s) - Len(p) + 1) : Matches(s, p, i)}
  IN  IF hits = {} THEN 0 ELSE CHOOSE i \in hits : \A j \in hits : i <= j

(***************************************************************************)
(* json_parse_c: the scanner.  One call of json_step is one iteration of   *)
(* the for loop; the record st holds the locals of the function.           *)
(***************************************************************************)

NULL == <<-1>>     \* a null key pointer (positional search)

IsSpaceOrSep(c) == c \in {32, 9, 10, 13, 44, 58}          \* ' ' \t \n \r , :
IsLiteralEnd(c) == c \in {32, 9, 10, 13, 44, 93, 125, 58} \* ... ] } :
IsLiteralStart(c) == c \in {116, 102, 110, 45} \/ (c >= 48 /\ c <= 57)
IsEscapeChar(c) == c \in {34, 92, 47, 98, 102, 110, 114, 116, 117}

\* the locals after "key == NULL" handling and the reset of *value, *valuesz
json_init(sz, key, keysz) ==
  [ pos |-> 1, sz |-> sz, state |-> "VALUE", k |-> 0,
    index |-> IF key = NULL THEN keysz ELSE 1,
    keysz |-> IF key = NULL THEN 0 ELSE keysz,
    depth |-> 0, utf8_bytes |-> 0,
    value |-> 0, valuesz |-> 0, done |-> FALSE, ret |-> -1 ]

\* variant: a backslash does not open an escape
json_case_string_noEscape(c, r) ==
  IF c < 32 \/ (c > 126 /\ c < 192) THEN [r EXCEPT !.abort = TRUE]
  ELSE IF c = 34 THEN [r EXCEPT !.action = "END", !.state = "VALUE"]
  ELSE IF c >= 192 /\ c < 224 THEN [r EXCEPT !.utf8_bytes = 1, !.state = "UTF8"]
  ELSE IF c >= 224 /\ c < 240 THEN [r EXCEPT !.utf8_bytes = 2, !.state = "UTF8"]
  ELSE IF c >= 240 /\ c < 247 THEN [r EXCEPT !.utf8_bytes = 3, !.state = "UTF8"]
  ELSE r

\* case JSON_STATE_STRING (also entered by fallthrough from LITERAL)
json_case_string(c, r) ==
  IF c < 32 \/ (c > 126 /\ c < 192) THEN [r EXCEPT !.abort = TRUE]
  ELSE IF c = 34 THEN [r EXCEPT !.action = "END", !.state = "VALUE"]
  ELSE IF c = 92 THEN [r EXCEPT !.state = "ESCAPE"]
  ELSE IF c >= 192 /\ c < 224 THEN [r EXCEPT !.utf8_bytes = 1, !.state = "UTF8"]
  ELSE IF c >= 224 /\ c < 240 THEN [r EXCEPT !.utf8_bytes = 2, !.state = "UTF8"]
  ELSE IF c >= 240 /\ c < 247 THEN [r EXCEPT !.utf8_bytes = 3, !.state = "UTF8"]
  ELSE IF c >= 128 /\ c < 192 THEN [r EXCEPT !.abort = TRUE]
  ELSE r

\* variant: the end of a literal steps back and stays in the LITERAL state
json_switch_literalStays(c, st) ==
  LET r0 == [ state |-> st.state, action |-> "NONE", pos |-> st.pos,
              sz |-> st.sz, utf8_bytes |-> st.utf8_bytes,
              abort |-> FALSE, cont |-> FALSE ]
  IN
  CASE st.state = "VALUE" ->
         IF IsSpaceOrSep(c) THEN [r0 EXCEPT !.cont = TRUE]
         ELSE IF c = 34 THEN [r0 EXCEPT !.action = "START", !.state = "STRING"]
         ELSE IF c \in {123, 91} THEN [r0 EXCEPT !.action = "START_STRUCT"]
         ELSE IF c \in {125, 93} THEN [r0 EXCEPT !.action = "END_STRUCT"]
         ELSE IF IsLiteralStart(c)
              THEN [r0 EXCEPT !.action = "START", !.state = "LITERAL"]
         ELSE [r0 EXCEPT !.abort = TRUE]
    [] st.state = "LITERAL" ->
         IF IsLiteralEnd(c)
         THEN json_case_string(c, [r0 EXCEPT !.state = "LITERAL",
                                             !.pos = st.pos - 1,
                                             !.sz = st.sz + 1,
                                             !.action = "END"])
         ELSE IF c < 32 \/ c > 126 THEN [r0 EXCEPT !.abort = TRUE]
         ELSE json_case_string(c, r0)
    [] st.state = "STRING" -> json_case_string(c, r0)
    [] st.state = "ESCAPE" ->
         IF IsEscapeChar(c) THEN [r0 EXCEPT !.state = "STRING"]
         ELSE [r0 EXCEPT !.abort = TRUE]
    [] st.state = "UTF8" ->
         IF c < 128 \/ c > 191 THEN [r0 EXCEPT !.abort = TRUE]
         ELSE [r0 EXCEPT !.utf8_bytes = st.utf8_bytes - 1,
                         !.state = IF st.utf8_bytes - 1 = 0
                                   THEN "STRING" ELSE "UTF8"]

\* the switch (state) of one iteration
json_switch(c, st) ==
  LET r0 == [ state |-> st.state, action |-> "NONE", pos |-> st.pos,
              sz |-> st.sz, utf8_bytes |-> st.utf8_bytes,
              abort |-> FALSE, cont |-> FALSE ]
  IN
  CASE st.state = "VALUE" ->
         IF IsSpaceOrSep(c) THEN [r0 EXCEPT !.cont = TRUE]
         ELSE IF c = 34 THEN [r0 EXCEPT !.action = "START", !.state = "STRING"]
         ELSE IF c \in {123, 91} THEN [r0 EXCEPT !.action = "START_STRUCT"]
         ELSE IF c \in {125, 93} THEN [r0 EXCEPT !.action = "END_STRUCT"]
         ELSE IF IsLiteralStart(c)
              THEN [r0 EXCEPT !.action = "START", !.state = "LITERAL"]
         ELSE [r0 EXCEPT !.abort = TRUE]
    [] st.state = "LITERAL" ->
         IF IsLiteralEnd(c)
         THEN json_case_string(c, [r0 EXCEPT !.state = "VALUE",
                                             !.pos = st.pos - 1,
                                             !.sz = st.sz + 1,
                                             !.action = "END"])
         ELSE IF c < 32 \/ c > 126 THEN [r0 EXCEPT !.abort = TRUE]
         ELSE json_case_string(c, r0)
    [] st.state = "STRING" -> json_case_string(c, r0)
    [] st.state = "ESCAPE" ->
         IF IsEscapeChar(c) THEN [r0 EXCEPT !.state = "STRING"]
         ELSE [r0 EXCEPT !.abort = TRUE]
    [] st.state = "UTF8" ->
         IF c < 128 \/ c > 191 THEN [r0 EXCEPT !.abort = TRUE]
         ELSE [r0 EXCEPT !.utf8_bytes = st.utf8_bytes - 1,
                         !.state = IF st.utf8_bytes - 1 = 0
                                   THEN "STRING" ELSE "UTF8"]

\* keysz == (size_t)(s - k - 1) && memcmp(key, k + 1, keysz) == 0
json_key_equal(s, key, keysz, k, pos) ==
  /\ keysz = pos - k - 1
  /\ \A j \in 1..keysz : key[j] = s[k + j]

\* variant: children of every depth are candidates
json_action_anyDepth(s, key, st, r) ==
  LET depth1 == IF r.action = "END_STRUCT" THEN st.depth - 1 ELSE st.depth
      depth2 == IF r.action = "START_STRUCT" THEN depth1 + 1 ELSE depth1
      base   == [st EXCEPT !.state = r.state, !.utf8_bytes = r.utf8_bytes,
                           !.pos = r.pos + 1, !.sz = r.sz - 1,
                           !.depth = depth2]
  IN
  IF depth1 < 1 THEN base
  ELSE IF r.action \in {"START", "START_STRUCT"} THEN
         IF st.index = 0 THEN [base EXCEPT !.value = r.pos]
         ELSE IF st.keysz > 0 /\ st.index = 1 THEN [base EXCEPT !.k = r.pos]
         ELSE [base EXCEPT !.index = st.index - 1]
  ELSE IF r.action \in {"END", "END_STRUCT"} THEN
         IF st.value # 0 /\ st.index = 0
         THEN [base EXCEPT !.valuesz = r.pos + 1 - st.value,
                           !.done = TRUE, !.ret = 0]
         ELSE IF st.keysz > 0 /\ st.k # 0
         THEN [base EXCEPT !.k = 0,
                 !.index = IF json_key_equal(s, key, st.keysz, st.k, r.pos)
                           THEN 0 ELSE 2]
         ELSE base
  ELSE base

\* variant: after a key that differs the next child is again taken as a key
json_action_noSkip(s, key, st, r) ==
  LET depth1 == IF r.action = "END_STRUCT" THEN st.depth - 1 ELSE st.depth
      depth2 == IF r.action = "START_STRUCT" THEN depth1 + 1 ELSE depth1
      base   == [st EXCEPT !.state = r.state, !.utf8_bytes = r.utf8_bytes,
                           !.pos = r.pos + 1, !.sz = r.sz - 1,
                           !.depth = depth2]
  IN
  IF depth1 # 1 THEN base
  ELSE IF r.action \in {"START", "START_STRUCT"} THEN
         IF st.index = 0 THEN [base EXCEPT !.value = r.pos]
         ELSE IF st.keysz > 0 /\ st.index = 1 THEN [base EXCEPT !.k = r.pos]
         ELSE [base EXCEPT !.index = st.index - 1]
  ELSE IF r.action \in {"END", "END_STRUCT"} THEN
         IF st.value # 0 /\ st.index = 0
         THEN [base EXCEPT !.valuesz = r.pos + 1 - st.value,
                           !.done = TRUE, !.ret = 0]
         ELSE IF st.keysz > 0 /\ st.k # 0
         THEN [base EXCEPT !.k = 0,
                 !.index = IF json_key_equal(s, key, st.keysz, st.k, r.pos)
                           THEN 0 ELSE 1]
         ELSE base
  ELSE base

\* the depth / index handling after the switch, and the loop increment
json_action(s, key, st, r) ==
  LET depth1 == IF r.action = "END_STRUCT" THEN st.depth - 1 ELSE st.depth
      depth2 == IF r.action = "START_STRUCT" THEN depth1 + 1 ELSE depth1
      base   == [st EXCEPT !.state = r.state, !.utf8_bytes = r.utf8_bytes,
                           !.pos = r.pos + 1, !.sz = r.sz - 1,
                           !.depth = depth2]
  IN
  IF depth1 # 1 THEN base
  ELSE IF r.action \in {"START", "START_STRUCT"} THEN
         IF st.index = 0 THEN [base EXCEPT !.value = r.pos]
         ELSE IF st.keysz > 0 /\ st.index = 1 THEN [base EXCEPT !.k = r.pos]
         ELSE [base EXCEPT !.index = st.index - 1]
  ELSE IF r.action \in {"END", "END_STRUCT"} THEN
         IF st.value # 0 /\ st.index = 0
         THEN [base EXCEPT !.valuesz = r.pos + 1 - st.value,
                           !.done = TRUE, !.ret = 0]
         ELSE IF st.keysz > 0 /\ st.k # 0
         THEN [base EXCEPT !.k = 0,
                 !.index = IF json_key_equal(s, key, st.keysz, st.k, r.pos)
                           THEN 0 ELSE 2]
         ELSE base
  ELSE base

\* one iteration of the for loop (not st.done, st.sz > 0)
json_step(s, key, st) ==
  LET r == json_switch(s[st.pos], st)
  IN  IF r.abort THEN [st EXCEPT !.done = TRUE, !.ret = -1]
      ELSE IF r.cont THEN [st EXCEPT !.pos = st.pos + 1, !.sz = st.sz - 1]
      ELSE json_action(s, key, st, r)

RECURSIVE json_loop(_, _, _)
json_loop(s, key, st) ==
  IF st.done THEN st
  ELSE IF st.sz <= 0 THEN [st EXCEPT !.done = TRUE, !.ret = -1]
  ELSE json_loop(s, key, json_step(s, key, st))

\* result: ret (0 / -1), value (0 = NULL, else index of first byte), valuesz
json_result(st) == [ret |-> st.ret, value |-> st.value, valuesz |-> st.valuesz]

json_parse_c(s, sz, key, keysz) ==
  json_result(json_loop(s, key, json_init(sz, key, keysz)))

(***************************************************************************)
(* json_unescape, reading the n bytes at s[p..]; a read at Len(s)+1 is the *)
(* terminating NUL of the std::string the buffer comes from.               *)
(***************************************************************************)

ByteAt(s, i) == IF i >= 1 /\ i <= Len(s) THEN s[i] ELSE 0

\* variant: \u is taken as the letter u
UnescapeChar_acceptU(c) ==
  CASE c = 98 -> 8   [] c = 102 -> 12 [] c = 110 -> 10 [] c = 114 -> 13
    [] c = 116 -> 9  [] c = 92 -> 92  [] c = 47 -> 47  [] c = 34 -> 34
    [] c = 117 -> 117
    [] OTHER -> -1

\* variant: the character after the backslash is copied as it is
UnescapeChar_identity(c) ==
  IF c \in {98, 102, 110, 114, 116, 92, 47, 34} THEN c ELSE -1

UnescapeChar(c) ==
  CASE c = 98 -> 8   [] c = 102 -> 12 [] c = 110 -> 10 [] c = 114 -> 13
    [] c = 116 -> 9  [] c = 92 -> 92  [] c = 47 -> 47  [] c = 34 -> 34
    [] OTHER -> -1

RECURSIVE json_unescape_loop(_, _, _, _)
json_unescape_loop(s, p, n, out) ==
  IF n > 2 THEN
    IF ByteAt(s, p) = 92 THEN
      LET c == UnescapeChar(ByteAt(s, p + 1))
      IN  IF c = -1 THEN [r |-> -1, out |-> out]
          ELSE json_unescape_loop(s, p + 2, n - 2, Append(out, c))
    ELSE json_unescape_loop(s, p + 1, n - 1, Append(out, ByteAt(s, p)))
  ELSE IF ByteAt(s, p) # 34 THEN [r |-> -1, out |-> out]
  ELSE [r |-> Len(out), out |-> out]

\* result: r (decoded length or -1) and the bytes written to out
json_unescape(s, p, n) ==
  IF ByteAt(s, p) # 34 THEN [r |-> -1, out |-> << >>]
  ELSE json_unescape_loop(s, p + 1, n, << >>)

\* variant: a string that json_unescape rejects is returned as it stands
json_parse_value_rawOnReject(s, res) ==
  IF res.value # 0 THEN
    IF ByteAt(s, res.value) # 34
    THEN Span(s, res.value, res.value + res.valuesz - 1)
    ELSE LET u == json_unescape(s, res.value, res.valuesz)
         IN  IF u.r > 0 THEN u.out
             ELSE Span(s, res.value, res.value + res.valuesz - 1)
  ELSE << >>

\* json_parse(s, key, index): the decoded field, "" when absent
\* the part after the scan, res being what json_parse_c left in value, value_sz
json_parse_value(s, res) ==
  IF res.value # 0 THEN
    IF ByteAt(s, res.value) # 34
    THEN Span(s, res.value, res.value + res.valuesz - 1)
    ELSE LET u == json_unescape(s, res.value, res.valuesz)
         IN  IF u.r > 0 THEN u.out ELSE << >>
  ELSE << >>

json_parse(s, key, index) ==
  json_parse_value(s, IF key = << >>
                      THEN json_parse_c(s, Len(s), NULL, index)
                      ELSE json_parse_c(s, Len(s), key, Len(key)))

(***************************************************************************)
(* Wire text: the envelope built by the injected function with             *)
(* JSON.stringify, and the settlement script built by resolve.             *)
(***************************************************************************)

K_id     == <<105, 100>>                                   \* id
K_method == <<109, 101, 116, 104, 111, 100>>               \* method
K_params == <<112, 97, 114, 97, 109, 115>>                 \* params

JS_rpc_open == <<119, 105, 110, 100, 111, 119, 46, 95, 114, 112, 99, 91>>
                                                           \* window._rpc[
JS_resolve  == <<93, 46, 114, 101, 115, 111, 108, 118, 101, 40>>
                                                           \* ].resolve(
JS_reject   == <<93, 46, 114, 101, 106, 101, 99, 116, 40>> \* ].reject(
JS_then     == <<41, 59, 32>> \o JS_rpc_open               \* ); window._rpc[
JS_clear    == <<93, 32, 61, 32, 117, 110, 100, 101, 102, 105, 110, 101, 100>>
                                                           \* ] = undefined

\* decimal text of a natural number (what JSON.stringify emits for an id)
RECURSIVE DecText(_)
DecText(n) == IF n < 10 THEN <<48 + n>> ELSE DecText(n \div 10) \o <<48 + (n % 10)>>

Quoted(t) == <<34>> \o t \o <<34>>

\* JSON.stringify({id: seq, method: name, params: [...]}), params given as text
Stringify(id, name, params) ==
  <<123>> \o Quoted(K_id) \o <<58>> \o DecText(id) \o <<44>>
          \o Quoted(K_method) \o <<58>> \o Quoted(name) \o <<44>>
          \o Quoted(K_params) \o <<58>> \o params \o <<125>>

\* the same envelope cut off right after the value of its method field
Truncated(id, name) ==
  <<123>> \o Quoted(K_id) \o <<58>> \o DecText(id) \o <<44>>
          \o Quoted(K_method) \o <<58>> \o Quoted(name)

\* variant: the status test inverted
ResolveScript_invertedStatus(seq, status, result) ==
  IF status # 0
  THEN JS_rpc_open \o seq \o JS_resolve \o result \o JS_then \o seq \o JS_clear
  ELSE JS_rpc_open \o seq \o JS_reject \o result \o JS_then \o seq \o JS_clear

\* the script text that the closure posted by resolve hands to eval
ResolveScript(seq, status, result) ==
  IF status = 0
  THEN JS_rpc_open \o seq \o JS_resolve \o result \o JS_then \o seq \o JS_clear
  ELSE JS_rpc_open \o seq \o JS_reject \o result \o JS_then \o seq \o JS_clear

(***************************************************************************)
(* The script side.  ReadScript is how the script engine reads a           *)
(* settlement script: the table key it indexes, the method it calls, the   *)
(* argument text and the key it clears.                                    *)
(***************************************************************************)

NoScript == [ok |-> FALSE, target |-> << >>, path |-> "none",
             arg |-> << >>, cleared |-> << >>]

\* (intermediate results are bound by set membership, which computes them once)
ReadClear(js, a, path, b, m) ==
  LET e == Len(js) - Len(JS_clear) + 1
  IN  IF m = 0 \/ e < m + Len(JS_then) \/ ~Matches(js, JS_clear, e)
      THEN NoScript
      ELSE [ok |-> TRUE,
            target |-> Span(js, Len(JS_rpc_open) + 1, a - 1),
            path |-> path,
            arg |-> Span(js, b, m - 1),
            cleared |-> Span(js, m + Len(JS_then), e - 1)]

ReadArg(js, a, path, b) ==
  CHOOSE r \in { ReadClear(js, a, path, b, m) : m \in {Find(js, JS_then, b)} } : TRUE

ReadCall(js, a) ==
  IF a = 0 THEN NoScript
  ELSE IF Matches(js, JS_resolve, a)
       THEN ReadArg(js, a, "resolve", a + Len(JS_resolve))
  ELSE IF Matches(js, JS_reject, a)
       THEN ReadArg(js, a, "reject", a + Len(JS_reject))
  ELSE NoScript

ReadScript(js) ==
  IF ~Matches(js, JS_rpc_open, 1) THEN NoScript
  ELSE CHOOSE r \in { ReadCall(js, a) :
                        a \in {Find(js, <<93>>, Len(JS_rpc_open) + 1)} } : TRUE

\* the table key a numeric literal denotes; 0 when the text is no such literal
RECURSIVE DecValue(_)
DecValue(t) ==
  IF Len(t) = 0 THEN 0
  ELSE IF Len(t) = 1 THEN t[1] - 48
  ELSE 10 * DecValue(SubSeq(t, 1, Len(t) - 1)) + (t[Len(t)] - 48)

ScriptKey(t) ==
  IF /\ Len(t) > 0
     /\ \A i \in 1..Len(t) : t[i] >= 48 /\ t[i] <= 57
     /\ t[1] # 48
  THEN DecValue(t) ELSE 0

(***************************************************************************)
(* Bounds and input sets                                                   *)
(***************************************************************************)

MaxBinds      == 2     \* bind calls
MaxCalls      == 2     \* calls of bound functions made by page script
MaxDeliveries == 2     \* messages handed to on_message
MaxChannel    == 1     \* messages in flight from the page
MaxResolves   == 2     \* webview_return calls made by worker threads

N_add == <<97, 100, 100>>                 \* add
N_sub == <<115, 117, 98>>                 \* sub
N_nop == <<110, 111, 112>>                \* nop (never bound)
Names == {N_add, N_sub}

A_23  == <<91, 50, 44, 51, 93>>           \* [2,3]
A_del == <<91, 34, 127, 34, 93>>          \* ["<DEL>"], the call f("\x7f")
ArgTexts == {A_23, A_del}

R_42   == <<52, 50>>                      \* 42
R_boom == <<34, 98, 111, 111, 109, 34>>   \* "boom"

\* the (fn, arg) pairs given to webview_bind
BindChoices == { <<"cbA", "ctx1">> }
\* the (status, result) pairs given to webview_return
ResolveChoices == { <<0, R_42>>, <<1, R_boom>> }
Workers   == {"w1", "w2"}        \* native threads other than the UI thread

VARIABLES
  running,      \* webview_run has been entered: the UI thread runs the loop
  bindings,     \* webview::bindings, name -> [f, arg]
  init_js,      \* the binding scripts handed to init(), in order (names)
  page,         \* the loaded page: window[name] functions and window._rpc
  promises,     \* every promise created by a bound function, by creation
  channel,      \* messages posted by the page, not yet given to on_message
  queue,        \* closures posted with dispatch(), not yet run
  thr,          \* per worker: the closure built inside resolve, or NoClosure
  handed,       \* sequence texts that C callbacks handed to worker threads
  evals,        \* the scripts given to eval(), in order
  resolveCalls, \* history: the completed resolve calls, in completion order
  last,         \* history: the latest on_message call and what it did
  heap,         \* the live allocations made by bind (new ...)
  binds,        \* history: the bind calls made, in order, [name, f, arg]
  engine,       \* the browser_engine of the build: "win32" or "gtk"
  m_main_thread,\* win32_edge_engine::m_main_thread
  loop,         \* the main loop: [state, thread]
  mq,           \* per target the closures posted and not yet taken: a win32
                \* thread message queue, or the GLib default main context
  quit,         \* per target: quit was requested and not yet acted on
  terminators,  \* history: the webview_terminate calls made
  destroyed,    \* webview_destroy was called
  posted,       \* history: the webview_dispatch calls, in completion order
  ran,          \* history: the posted functions executed, in execution order
  scan,         \* one json_parse_c call: its arguments and its locals
  codec,        \* one call of a string codec: its argument and its results
  win           \* the window: m_hide_on_close, its visibility, the last close

bridgeVars == <<running, bindings, init_js, page, promises, channel, queue,
                thr, handed, evals, resolveCalls, last>>
bindVars == <<heap, binds>>
lifeVars == <<engine, m_main_thread, loop, mq, quit, terminators, destroyed,
              posted, ran, win>>

vars == <<bridgeVars, bindVars, lifeVars, scan, codec>>

UI == [queue |-> queue, evals |-> evals, page |-> page, promises |-> promises]

NoClosure == [seq |-> << >>, status |-> -1, result |-> << >>]
NoEnv  == [wf |-> FALSE, id |-> 0, method |-> << >>, params |-> << >>]
NoPage == [loaded |-> FALSE, gen |-> 0, funcs |-> {}, rpc |-> FALSE,
           nextSeq |-> 0, table |-> << >>]

\* a message with the fields it was built from (wf: a complete envelope)
Envelope(id, name, params) ==
  [text |-> Stringify(id, name, params),
   env |-> [wf |-> TRUE, id |-> id, method |-> name, params |-> params]]

\* strings a page script may hand to window.external.invoke by itself
RawMsgs ==
  { Envelope(1, N_nop, A_23),
    [text |-> Truncated(1, N_add), env |-> NoEnv],
    [text |-> <<120>> \o Stringify(1, N_add, A_23), env |-> NoEnv] }

(***************************************************************************)
(* Script side: page load, the injected function, eval                     *)
(***************************************************************************)

\* a page load runs every script registered with init(): each binding script
\* creates window._rpc if absent and installs window[name]
LoadedPage(gen, scripts) ==
  [loaded |-> TRUE, gen |-> gen,
   funcs |-> {scripts[i] : i \in 1..Len(scripts)},
   rpc |-> Len(scripts) > 0,
   nextSeq |-> 1, table |-> << >>]

TableGet(t, k) == IF k \in DOMAIN t THEN t[k] ELSE 0   \* 0: undefined
TableSet(t, k, v) == [j \in (DOMAIN t) \cup {k} |-> IF j = k THEN v ELSE t[j]]

\* variant: the entry is stored after the increment, RPC[RPC.nextSeq] = {...}
BoundFunction_keyAfterIncrement(pg, proms, name, args) ==
  LET seq == pg.nextSeq
      pid == Len(proms) + 1
  IN  [page |-> [pg EXCEPT !.nextSeq = seq + 1,
                           !.table = TableSet(pg.table, seq + 1, pid)],
       promises |-> Append(proms, [state |-> "pending", value |-> << >>,
                                   seq |-> seq, name |-> name,
                                   gen |-> pg.gen]),
       msg |-> Envelope(seq, name, args)]

\* variant: the id is the lowest key whose table entry is free
BoundFunction_reuseFreeKey(pg, proms, name, args) ==
  LET seq == CHOOSE k \in 1..(Len(proms) + 1) :
                /\ TableGet(pg.table, k) = 0
                /\ \A j \in 1..(k - 1) : TableGet(pg.table, j) # 0
      pid == Len(proms) + 1
  IN  [page |-> [pg EXCEPT !.nextSeq = seq + 1,
                           !.table = TableSet(pg.table, seq, pid)],
       promises |-> Append(proms, [state |-> "pending", value |-> << >>,
                                   seq |-> seq, name |-> name,
                                   gen |-> pg.gen]),
       msg |-> Envelope(seq, name, args)]

\* variant: var seq = RPC.nextSeq, without the increment
BoundFunction_noIncrement(pg, proms, name, args) ==
  LET seq == pg.nextSeq
      pid == Len(proms) + 1
  IN  [page |-> [pg EXCEPT !.table = TableSet(pg.table, seq, pid)],
       promises |-> Append(proms, [state |-> "pending", value |-> << >>,
                                   seq |-> seq, name |-> name,
                                   gen |-> pg.gen]),
       msg |-> Envelope(seq, name, args)]

\* window[name](args): var seq = RPC.nextSeq++; RPC[seq] = {resolve, reject};
\* window.external.invoke(JSON.stringify({id, method, params}))
BoundFunction(pg, proms, name, args) ==
  LET seq == pg.nextSeq
      pid == Len(proms) + 1
  IN  [page |-> [pg EXCEPT !.nextSeq = seq + 1,
                           !.table = TableSet(pg.table, seq, pid)],
       promises |-> Append(proms, [state |-> "pending", value |-> << >>,
                                   seq |-> seq, name |-> name,
                                   gen |-> pg.gen]),
       msg |-> Envelope(seq, name, args)]

\* resolve(v) / reject(v) of a promise: only a pending promise changes
Settle(pr, path, v) ==
  IF pr.state # "pending" THEN pr
  ELSE [pr EXCEPT !.state = IF path = "resolve" THEN "resolved" ELSE "rejected",
                  !.value = v]

\* evaluation of a script: a script that is not a settlement script, or one
\* whose table entry is undefined, throws before it changes anything
SettleEntry(pg, proms, r) ==
  LET key  == ScriptKey(r.target)
      ckey == ScriptKey(r.cleared)
      pid  == TableGet(pg.table, key)
  IN  IF ~pg.loaded \/ ~pg.rpc \/ ~r.ok \/ key = 0 \/ ckey = 0 \/ pid = 0
      THEN [page |-> pg, promises |-> proms]
      ELSE [page |-> [pg EXCEPT !.table = TableSet(pg.table, ckey, 0)],
            promises |-> [proms EXCEPT ![pid] = Settle(proms[pid], r.path, r.arg)]]

EvalJS(pg, proms, js) ==
  CHOOSE o \in { SettleEntry(pg, proms, r) : r \in {ReadScript(js)} } : TRUE

(***************************************************************************)
(* Native side: bind, on_message, resolve, dispatch                        *)
(***************************************************************************)

\* variant: the map keeps the entry a name already has (insert, not operator[])
bind_keepFirst(b, name, f, arg) ==
  [n \in (DOMAIN b) \cup {name} |-> IF n \in DOMAIN b THEN b[n]
                                     ELSE [f |-> f, arg |-> arg]]

\* bindings[name] = new binding_ctx_t(new binding_t(f), arg)
bind(b, name, f, arg) ==
  [n \in (DOMAIN b) \cup {name} |-> IF n = name THEN [f |-> f, arg |-> arg]
                                     ELSE b[n]]

\* variant: without the bindings.find(name) test, a miss falls through to a
\* binding that exists
on_message_noLookupTest(b, seq, name, args) ==
  LET n == IF name \in DOMAIN b THEN name ELSE CHOOSE x \in DOMAIN b : TRUE
  IN  IF DOMAIN b = {} THEN << >>
      ELSE << [f |-> b[n].f, seq |-> seq, req |-> args, arg |-> b[n].arg] >>

\* variant: a message without id or without params is dropped
on_message_lookup_complete(b, seq, name, args) ==
  IF name \notin DOMAIN b \/ seq = << >> \/ args = << >> THEN << >>
  ELSE << [f |-> b[name].f, seq |-> seq, req |-> args, arg |-> b[name].arg] >>

\* on_message after its three json_parse calls: the lookup in bindings and
\* the callback invocations made, in order
on_message_lookup(b, seq, name, args) ==
  IF name \notin DOMAIN b THEN << >>
  ELSE << [f |-> b[name].f, seq |-> seq, req |-> args, arg |-> b[name].arg] >>

on_message(msg, b) ==
  on_message_lookup(b, json_parse(msg, K_id, 0), json_parse(msg, K_method, 0),
                       json_parse(msg, K_params, 0))

\* std::map::operator[]: an absent key is inserted with a null pointer
NullBinding == [f |-> "null", arg |-> "null"]
map_index(b, name) ==
  IF name \in DOMAIN b THEN b ELSE TableSet(b, name, NullBinding)

\* on_message without the test of bindings.find(name)
on_message_bindings_noFind(b, name) == map_index(b, name)

\* the table after on_message: bindings[name] is evaluated only when
\* bindings.find(name) found the name
on_message_bindings(b, name) ==
  IF name \notin DOMAIN b THEN b ELSE map_index(b, name)

\* the lambda of resolve captures seq, status and result by value
MakeClosure(seq, status, result) ==
  [seq |-> seq, status |-> status, result |-> result]

\* variant: the lambda captures by reference ([&]); when it runs it reads
\* the arguments of the latest resolve call
ClosureScript_byReference(c) ==
  LET l == resolveCalls[Len(resolveCalls)]
  IN  ResolveScript(l.seq, l.status, l.result)

\* the body of that lambda: the script it passes to eval
ClosureScript(c) == ResolveScript(c.seq, c.status, c.result)

\* The state that the UI thread's work acts on, as one record:
\*   queue, evals, page, promises
\* eval(js): the script is handed to the engine and evaluated
eval(u, js) ==
  LET r == EvalJS(u.page, u.promises, js)
  IN  [u EXCEPT !.evals = Append(u.evals, js),
                !.page = r.page, !.promises = r.promises]

\* variant: dispatch runs the closure at once on the calling thread
dispatch_inline(u, f) == eval(u, ClosureScript(f))

\* variant: one pending slot, a posted closure replaces the one waiting
dispatch_singleSlot(u, f) == [u EXCEPT !.queue = <<f>>]

\* dispatch(f): the closure is appended to the UI thread's queue
dispatch(u, f) == [u EXCEPT !.queue = Append(u.queue, f)]

\* resolve(seq, status, result)
resolve(u, seq, status, result) == dispatch(u, MakeClosure(seq, status, result))

\* the function given to the sync bind: this model's functions echo the request
SyncResult(fn, req) == req

\* one callback invocation made by on_message: the lambda of the sync bind
\* calls resolve(seq, 0, fn(req)) before it returns; a C callback hands the
\* sequence to a worker thread and returns
Invoke(u, inv) ==
  IF inv.f = "sync" THEN resolve(u, inv.seq, 0, SyncResult(inv.arg, inv.req))
  ELSE u

RECURSIVE InvokeAll(_, _)
InvokeAll(u, invs) ==
  IF invs = << >> THEN u ELSE InvokeAll(Invoke(u, Head(invs)), Tail(invs))

\* history records of the resolve calls made by those invocations
SyncCalls(invs) ==
  LET syncs == SelectSeq(invs, LAMBDA i : i.f = "sync")
  IN  [j \in 1..Len(syncs) |->
         [seq |-> syncs[j].seq, status |-> 0,
          result |-> SyncResult(syncs[j].arg, syncs[j].req),
          by |-> "ui", overlap |-> FALSE]]

(***************************************************************************)
(* Actions                                                                 *)
(***************************************************************************)

BridgeInit ==
  /\ running = FALSE
  /\ bindings = << >>
  /\ init_js = << >>
  /\ page = NoPage
  /\ promises = << >>
  /\ channel = << >>
  /\ queue = << >>
  /\ thr = [t \in Workers |-> NoClosure]
  /\ handed = {}
  /\ evals = << >>
  /\ resolveCalls = << >>
  /\ last = [n |-> 0, msg |-> [text |-> << >>, env |-> NoEnv],
             invoked |-> << >>]
  /\ heap = {}
  /\ binds = << >>

\* native threads of the embedding program, and what a post can be addressed
\* to: the message queue of a thread (win32) or the default main context (gtk)
Threads == {"t1", "t2"}
Targets == Threads \cup {"ctx"}

NoLoop == [state |-> "none", thread |-> "none"]
NoCodec == [fn |-> "none"]

\* the window after webview_create and webview_addview: no constructor and
\* no initializer gives m_hide_on_close a value
NoClose == [flag |-> "none", outcome |-> "none", quitBefore |-> FALSE,
            quit |-> FALSE]
NoWin == [m_hide_on_close |-> "indeterminate", window |-> "hidden",
          sets |-> 0, closes |-> 0, closed |-> NoClose]
NoScan == [text |-> << >>, key |-> NULL, keysz |-> 0, doc |-> "none",
           st |-> json_init(0, NULL, 0)]

\* the variables of the main loop and of the scanner, before either is used
LifeIdle ==
  /\ m_main_thread = "none"
  /\ loop = NoLoop
  /\ mq = [g \in Targets |-> << >>]
  /\ quit = [g \in Targets |-> FALSE]
  /\ terminators = {}
  /\ destroyed = FALSE
  /\ posted = << >>
  /\ ran = << >>
  /\ win = NoWin

Init ==
  /\ BridgeInit
  /\ engine = "any"
  /\ LifeIdle
  /\ scan = NoScan
  /\ codec = NoCodec

\* the allocations of one bind call: new binding_ctx_t(new binding_t(f), arg)
bind_allocs(call) ==
  { [kind |-> "binding_t", call |-> call],
    [kind |-> "binding_ctx_t", call |-> call] }

\* ... and those of the sync bind: new sync_binding_ctx_t(this, fn) as well
bind_sync_allocs(call) ==
  bind_allocs(call) \cup { [kind |-> "sync_binding_ctx_t", call |-> call] }

\* webview_bind(w, name, fn, arg)
Bind(name, f, arg) ==
  /\ ~running
  /\ ~destroyed
  /\ Len(init_js) < MaxBinds
  /\ init_js' = Append(init_js, name)
  /\ bindings' = bind(bindings, name, f, arg)
  /\ heap' = heap \cup bind_allocs(Len(init_js) + 1)
  /\ binds' = Append(binds, [name |-> name, f |-> f, arg |-> arg])
  /\ UNCHANGED <<running, page, promises, channel, queue, thr, handed, evals,
                 resolveCalls, last>>
  /\ UNCHANGED <<lifeVars, scan, codec>>

\* webview::bind(name, sync_binding_t fn)
BindSync(name, fn) ==
  /\ ~running
  /\ ~destroyed
  /\ Len(init_js) < MaxBinds
  /\ init_js' = Append(init_js, name)
  /\ bindings' = bind(bindings, name, "sync", fn)
  /\ heap' = heap \cup bind_sync_allocs(Len(init_js) + 1)
  /\ binds' = Append(binds, [name |-> name, f |-> "sync", arg |-> fn])
  /\ UNCHANGED <<running, page, promises, channel, queue, thr, handed, evals,
                 resolveCalls, last>>
  /\ UNCHANGED <<lifeVars, scan, codec>>

\* webview_run: the UI thread enters the main loop
Run ==
  /\ ~running
  /\ running' = TRUE
  /\ UNCHANGED <<bindings, init_js, page, promises, channel, queue, thr,
                 handed, evals, resolveCalls, last>>
  /\ UNCHANGED <<bindVars, lifeVars, scan, codec>>

\* the page requested with navigate() is loaded
LoadPage ==
  /\ running
  /\ ~page.loaded
  /\ page' = LoadedPage(1, init_js)
  /\ UNCHANGED <<running, bindings, init_js, promises, channel, queue, thr,
                 handed, evals, resolveCalls, last>>
  /\ UNCHANGED <<bindVars, lifeVars, scan, codec>>

\* page script calls the bound function window[name](...)
JSCall(name, args) ==
  /\ running
  /\ page.loaded
  /\ name \in page.funcs
  /\ Len(promises) < MaxCalls
  /\ Len(channel) < MaxChannel
  /\ LET r == BoundFunction(page, promises, name, args)
     IN  /\ page' = r.page
         /\ promises' = r.promises
         /\ channel' = Append(channel, r.msg)
  /\ UNCHANGED <<running, bindings, init_js, queue, thr, handed, evals,
                 resolveCalls, last>>
  /\ UNCHANGED <<bindVars, lifeVars, scan, codec>>

\* page script calls window.external.invoke(s) itself
JSInvoke(m) ==
  /\ running
  /\ page.loaded
  /\ Len(channel) < MaxChannel
  /\ channel' = Append(channel, m)
  /\ UNCHANGED <<running, bindings, init_js, page, promises, queue, thr,
                 handed, evals, resolveCalls, last>>
  /\ UNCHANGED <<bindVars, lifeVars, scan, codec>>

\* the UI thread receives the next message: on_message and the callback run
OnMessage ==
  /\ running
  /\ channel # << >>
  /\ last.n < MaxDeliveries
  /\ \E inv \in {on_message(Head(channel).text, bindings)} :
     \E u \in {InvokeAll(UI, inv)} :
         /\ channel' = Tail(channel)
         /\ queue' = u.queue
         /\ evals' = u.evals
         /\ page' = u.page
         /\ promises' = u.promises
         /\ resolveCalls' = resolveCalls \o SyncCalls(inv)
         /\ handed' = handed \cup {inv[i].seq : i \in {j \in 1..Len(inv) : inv[j].f # "sync"}}
         /\ last' = [n |-> last.n + 1, msg |-> Head(channel), invoked |-> inv]
  /\ bindings' = on_message_bindings(bindings,
                    json_parse(Head(channel).text, K_method, 0))
  /\ UNCHANGED <<running, init_js, thr>>
  /\ UNCHANGED <<bindVars, lifeVars, scan, codec>>

\* a worker thread enters webview_return(w, seq, status, result): the closure
\* of resolve is built from the arguments
ResolveBegin(t, seq, status, result) ==
  /\ thr[t] = NoClosure
  /\ seq \in handed
  /\ Cardinality({j \in 1..Len(resolveCalls) : resolveCalls[j].by # "ui"})
       + Cardinality({w \in Workers : thr[w] # NoClosure}) < MaxResolves
  /\ thr' = [thr EXCEPT ![t] = MakeClosure(seq, status, result)]
  /\ UNCHANGED <<running, bindings, init_js, page, promises, channel, queue,
                 handed, evals, resolveCalls, last>>
  /\ UNCHANGED <<bindVars, lifeVars, scan, codec>>

\* ... and posted with dispatch; resolve returns
ResolvePost(t) ==
  /\ thr[t] # NoClosure
  /\ \E u \in {dispatch(UI, thr[t])} :
         /\ queue' = u.queue
         /\ evals' = u.evals
         /\ page' = u.page
         /\ promises' = u.promises
  /\ resolveCalls' = Append(resolveCalls,
        [seq |-> thr[t].seq, status |-> thr[t].status, result |-> thr[t].result,
         by |-> "worker", overlap |-> \E w \in Workers \ {t} : thr[w] # NoClosure])
  /\ thr' = [thr EXCEPT ![t] = NoClosure]
  /\ UNCHANGED <<running, bindings, init_js, channel, handed, last>>
  /\ UNCHANGED <<bindVars, lifeVars, scan, codec>>

\* the main loop takes the next closure and runs it: eval(script)
RunClosure ==
  /\ running
  /\ queue # << >>
  /\ \E js \in {ClosureScript(Head(queue))} :
     \E u \in {eval([UI EXCEPT !.queue = Tail(queue)], js)} :
         /\ queue' = u.queue
         /\ evals' = u.evals
         /\ page' = u.page
         /\ promises' = u.promises
  /\ UNCHANGED <<running, bindings, init_js, channel, thr, handed,
                 resolveCalls, last>>
  /\ UNCHANGED <<bindVars, lifeVars, scan, codec>>

Next ==
  \/ \E n \in Names, c \in BindChoices : Bind(n, c[1], c[2])
  \/ \E n \in Names : BindSync(n, "echo")
  \/ Run
  \/ LoadPage
  \/ \E n \in Names, a \in ArgTexts : JSCall(n, a)
  \/ \E m \in RawMsgs : JSInvoke(m)
  \/ OnMessage
  \/ \E t \in Workers, s \in handed, c \in ResolveChoices :
        ResolveBegin(t, s, c[1], c[2])
  \/ \E t \in Workers : ResolvePost(t)
  \/ RunClosure

Spec == Init /\ [][Next]_vars

\* The same machine with fairness, for the progress of a resolution: the main
\* loop keeps taking closures and a thread inside resolve returns.  The setup
\* is one C callback and one sync binding, and the page sends only the
\* messages of its bound functions.
LiveNext ==
  \/ Bind(N_add, "cbA", "ctx1")
  \/ BindSync(N_sub, "echo")
  \/ Run
  \/ LoadPage
  \/ \E n \in Names : JSCall(n, A_23)
  \/ OnMessage
  \/ \E t \in Workers, s \in handed, c \in ResolveChoices :
        ResolveBegin(t, s, c[1], c[2])
  \/ \E t \in Workers : ResolvePost(t)
  \/ RunClosure

LiveSpec ==
  /\ Init
  /\ [][LiveNext]_vars
  /\ WF_vars(RunClosure)
  /\ \A t \in Workers : WF_vars(ResolvePost(t))

(***************************************************************************)
(* Properties                                                              *)
(***************************************************************************)

\* this step is a call of on_message
Delivered == last'.n # last.n

\* what an evaluated script reads as: sequence, status class, result
ScriptOf(call) ==
  [ok |-> TRUE, target |-> call.seq,
   path |-> IF call.status = 0 THEN "resolve" ELSE "reject",
   arg |-> call.result, cleared |-> call.seq]

\* C1: after bind(name, cb, ctx), delivering {"id":I,"method":name,"params":P}
\* invokes cb exactly once, inside on_message, with sequence = text of I,
\* request = text of P and the context of the registration, and invokes no
\* other callback.
C1_DispatchExact ==
  [][ (Delivered /\ Head(channel).env.wf
                 /\ Head(channel).env.method \in DOMAIN bindings)
      => LET e == Head(channel).env
         IN  last'.invoked = << [f   |-> bindings[e.method].f,
                                 seq |-> DecText(e.id),
                                 req |-> e.params,
                                 arg |-> bindings[e.method].arg] >> ]_vars

\* C2: delivering a message whose method is not in the binding table invokes
\* no callback, posts nothing to the dispatch queue and evaluates no script,
\* whatever the binding table holds.
C2_UnknownMethodDropped ==
  [][ (Delivered /\ Head(channel).env.wf
                 /\ Head(channel).env.method \notin DOMAIN bindings)
      => /\ last'.invoked = << >>
         /\ UNCHANGED <<queue, evals, page, promises, handed, resolveCalls,
                        bindings>> ]_vars

C2_Witness ==
  /\ last.n > 0
  /\ last.msg.env.wf
  /\ last.msg.env.method \notin DOMAIN bindings
  /\ DOMAIN bindings = Names

\* C3: a message that is not a well-formed envelope is dropped: on_message
\* invokes no binding callback for it.
C3_MalformedDropped ==
  [][ (Delivered /\ ~Head(channel).env.wf) => last'.invoked = << >> ]_vars

\* C4: every resolve(seq, status, result) call has exactly one script
\* evaluation, done or still queued; the script indexes window._rpc[seq],
\* calls resolve iff status = 0 and reject otherwise, passes result unchanged
\* and then clears window._rpc[seq].
C4_OneScriptPerResolve ==
  /\ Len(evals) + Len(queue) = Len(resolveCalls)
  /\ \A i \in 1..Len(evals) : ReadScript(evals[i]) = ScriptOf(resolveCalls[i])

C4_Witness ==
  /\ Len(evals) >= 2
  /\ \E i, j \in 1..Len(evals) :
        /\ resolveCalls[i].status = 0
        /\ resolveCalls[j].status # 0
        /\ resolveCalls[i].result # resolveCalls[j].result

\* C5: resolve never evaluates the settlement script inline: a script is
\* evaluated only by the main loop taking the closure at the head of the
\* dispatch queue (not in a step of on_message or of a worker thread), and the
\* step in which a resolve call completes evaluates nothing.
C5_NeverInline ==
  [][ /\ (evals' # evals =>
            /\ queue # << >>
            /\ queue' = Tail(queue)
            /\ evals' = Append(evals, ClosureScript(Head(queue)))
            /\ UNCHANGED <<last, thr, resolveCalls, channel>>)
      /\ (resolveCalls' # resolveCalls =>
            /\ UNCHANGED <<evals, page, promises>>
            /\ Len(queue') = Len(queue) + (Len(resolveCalls') - Len(resolveCalls)))
    ]_vars

\* a resolve made on the UI thread inside a binding callback was evaluated later
C5_Witness ==
  /\ Len(evals) >= 1
  /\ resolveCalls[1].by = "ui"
  /\ last.n > 0

\* C6: when worker threads resolve distinct sequence numbers concurrently,
\* every call gets its own evaluation and every evaluated script is made of
\* the seq, status and result of one single call.
C6_NoSplicing ==
  LET calls == 1..Len(resolveCalls)
  IN  (\A i, j \in calls : i # j => resolveCalls[i].seq # resolveCalls[j].seq)
      => /\ Len(evals) + Len(queue) = Len(resolveCalls)
         /\ \A i \in 1..Len(evals) :
               Cardinality({j \in calls :
                              ReadScript(evals[i]) = ScriptOf(resolveCalls[j])}) = 1
         /\ \A j \in calls :
               Cardinality({i \in 1..Len(evals) :
                              ReadScript(evals[i]).target = resolveCalls[j].seq}) <= 1

\* two calls that were inside resolve at the same time, both evaluated
C6_Witness ==
  /\ Len(evals) = 2
  /\ Len(resolveCalls) = 2
  /\ resolveCalls[1].overlap
  /\ resolveCalls[1].by = "worker" /\ resolveCalls[2].by = "worker"
  /\ resolveCalls[1].seq # resolveCalls[2].seq
  /\ resolveCalls[1].result # resolveCalls[2].result

\* the promise of call p leaves the pending state in this step
Settles(p) == promises[p].state = "pending" /\ promises'[p].state # "pending"

\* C7: a promise leaves the pending state only by the evaluation of a
\* resolution script that carries its own sequence number, and is settled with
\* that resolution's status and result; a call for which resolve was never
\* called stays pending.
C7_SettledOnlyByOwnResolution ==
  /\ [](\A p \in 1..Len(promises) :
          (\A j \in 1..Len(resolveCalls) :
              ScriptKey(resolveCalls[j].seq) # promises[p].seq)
          => promises[p].state = "pending")
  /\ [][ \A p \in 1..Len(promises) :
           Settles(p) =>
             /\ Len(evals') = Len(evals) + 1
             /\ LET r == ReadScript(evals'[Len(evals')])
                    c == resolveCalls[Len(evals')]
                IN  /\ ScriptKey(r.target) = promises[p].seq
                    /\ ScriptKey(c.seq) = promises[p].seq
                    /\ promises'[p].state =
                         (IF c.status = 0 THEN "resolved" ELSE "rejected")
                    /\ promises'[p].value = c.result ]_vars

\* two calls in flight, the later one settled first
C7_Witness ==
  /\ Len(promises) = 2
  /\ promises[1].state = "pending"
  /\ promises[2].state # "pending"

\* the first queued resolution for the pending call p, with status st
QueuedFor(p, st) ==
  /\ p <= Len(promises)
  /\ promises[p].state = "pending"
  /\ \E i \in 1..Len(queue) :
        /\ ScriptKey(queue[i].seq) = promises[p].seq
        /\ queue[i].status = st
        /\ \A j \in 1..(i - 1) : ScriptKey(queue[j].seq) # promises[p].seq

SettledAs(p, st) ==
  /\ p <= Len(promises)
  /\ promises[p].state = (IF st = 0 THEN "resolved" ELSE "rejected")

\* C8: once resolve was called with the sequence of a pending call, the
\* promise of that call is eventually settled: resolved if the status is 0,
\* rejected otherwise.
C8_EventuallySettled ==
  \A p \in 1..MaxCalls : \A st \in {0, 1} :
     QueuedFor(p, st) ~> SettledAs(p, st)

C8_Witness ==
  /\ Len(promises) = 2
  /\ promises[1].state = "rejected"
  /\ promises[2].state = "resolved"

\* this step evaluates a resolution for the sequence of a call of this page
\* whose promise an earlier resolution has settled
SecondResolution ==
  /\ Len(evals') = Len(evals) + 1
  /\ \E p \in 1..Len(promises) :
        /\ promises[p].gen = page.gen
        /\ promises[p].state # "pending"
        /\ promises[p].seq = ScriptKey(ReadScript(evals'[Len(evals')]).target)

\* C9: a second resolution of the same sequence number is a no-op: it changes
\* no promise and no table entry, and a settled promise keeps its outcome.
C9_SecondResolutionNoOp ==
  [][ /\ (SecondResolution => UNCHANGED <<page, promises>>)
      /\ \A p \in 1..Len(promises) :
           promises[p].state # "pending" => promises'[p] = promises[p] ]_vars

\* resolved first, then a rejection for the same sequence was evaluated,
\* while another call was pending
C9_Witness ==
  /\ Len(evals) = 2
  /\ ReadScript(evals[1]).target = ReadScript(evals[2]).target
  /\ ReadScript(evals[1]).path = "resolve"
  /\ ReadScript(evals[2]).path = "reject"
  /\ Len(promises) = 2
  /\ \E p, q \in 1..2 : promises[p].state = "resolved" /\ promises[q].state = "pending"

\* C10: within one page the sequence numbers are strictly increasing in call
\* order across all bound names, so ids are unique and no call overwrites the
\* table entry of another pending call.
C10_SeqIncreasing ==
  /\ \A p, q \in 1..Len(promises) :
        (p < q /\ promises[p].gen = promises[q].gen)
        => promises[p].seq < promises[q].seq
  /\ \A p \in 1..Len(promises) :
        (promises[p].state = "pending" /\ promises[p].gen = page.gen)
        => TableGet(page.table, promises[p].seq) = p

C10_Witness ==
  /\ Len(promises) = 2
  /\ promises[1].name # promises[2].name
  /\ promises[1].state = "pending" /\ promises[2].state = "pending"

(***************************************************************************)
(* The main loop: run, dispatch, terminate, destroy, for the win32 and the *)
(* gtk engine.  A posted function is identified by the number of its       *)
(* webview_dispatch call.                                                  *)
(***************************************************************************)

MaxPosts == 3      \* webview_dispatch calls

Engines == {"win32", "gtk"}

\* win32: PostThreadMessage(m_main_thread, ...); gtk: g_idle_add_full on the
\* default main context
PostTarget == IF engine = "win32" THEN m_main_thread ELSE "ctx"

\* what the loop takes closures from: GetMessage reads the queue of the
\* thread that called run; gtk_main iterates the default main context
LoopSource == IF engine = "win32" THEN loop.thread ELSE "ctx"

\* terminate() called on thread t: PostQuitMessage(0) asks the calling
\* thread's queue to quit; gtk_main_quit() stops the running gtk_main, and
\* does nothing when none runs
terminate(q, t) ==
  IF engine = "win32" THEN [q EXCEPT ![t] = TRUE]
  ELSE IF loop.state = "running" THEN [q EXCEPT !["ctx"] = TRUE]
  ELSE q

\* the allocations of bind that deleting the webview frees: class webview
\* declares no destructor, and the values of the bindings map are raw
\* pointers
destroy_frees(h) == {}

\* webview_create on some thread: m_main_thread = GetCurrentThreadId()
LifeInit ==
  /\ BridgeInit
  /\ engine \in Engines
  /\ m_main_thread \in (IF engine = "win32" THEN Threads ELSE {"none"})
  /\ loop = NoLoop
  /\ mq = [g \in Targets |-> << >>]
  /\ quit = [g \in Targets |-> FALSE]
  /\ terminators = {}
  /\ destroyed = FALSE
  /\ posted = << >>
  /\ ran = << >>
  /\ win = NoWin
  /\ scan = NoScan
  /\ codec = NoCodec

\* webview_run on thread t
EnterRun(t) ==
  /\ loop.state = "none"
  /\ ~destroyed
  /\ loop' = [state |-> "running", thread |-> t]
  /\ m_main_thread' = IF engine = "win32" THEN t ELSE m_main_thread
  /\ UNCHANGED <<engine, mq, quit, terminators, destroyed, posted, ran>>
  /\ UNCHANGED <<bridgeVars, bindVars, scan, codec, win>>

\* webview_dispatch(w, fn, arg) on thread t
Dispatch(t) ==
  /\ ~destroyed
  /\ Len(posted) < MaxPosts
  /\ mq' = [mq EXCEPT ![PostTarget] =
                dispatch([queue |-> mq[PostTarget]], Len(posted) + 1).queue]
  /\ posted' = Append(posted,
        [fn |-> Len(posted) + 1, by |-> t,
         teardown |-> (\E x \in terminators : x.running)
                        \/ loop.state = "returned"])
  /\ UNCHANGED <<engine, m_main_thread, loop, quit, terminators, destroyed, ran>>
  /\ UNCHANGED <<bridgeVars, bindVars, scan, codec, win>>

\* the loop takes the next posted closure and runs it.  win32: GetMessage
\* hands out posted messages before WM_QUIT; gtk: the iteration in progress
\* dispatches the sources that are ready, also after gtk_main_quit
LoopTake ==
  /\ loop.state = "running"
  /\ mq[LoopSource] # << >>
  /\ mq' = [mq EXCEPT ![LoopSource] = Tail(mq[LoopSource])]
  /\ ran' = Append(ran, [fn |-> Head(mq[LoopSource]), thread |-> loop.thread])
  /\ UNCHANGED <<engine, m_main_thread, loop, quit, terminators, destroyed,
                 posted>>
  /\ UNCHANGED <<bridgeVars, bindVars, scan, codec, win>>

\* the loop ends: GetMessage returns WM_QUIT once the queue holds no posted
\* message; gtk_main returns when the iteration in progress is over
LoopExit ==
  /\ loop.state = "running"
  /\ quit[LoopSource]
  /\ engine = "win32" => mq[LoopSource] = << >>
  /\ loop' = [loop EXCEPT !.state = "returned"]
  /\ quit' = [quit EXCEPT ![LoopSource] = FALSE]
  /\ UNCHANGED <<engine, m_main_thread, mq, terminators, destroyed, posted, ran>>
  /\ UNCHANGED <<bridgeVars, bindVars, scan, codec, win>>

\* webview_terminate on thread t
Terminate(t) ==
  /\ ~destroyed
  /\ \A x \in terminators : x.by # t
  /\ quit' = terminate(quit, t)
  /\ terminators' = terminators \cup
        { [by |-> t, running |-> loop.state = "running",
           onLoop |-> t = loop.thread] }
  /\ UNCHANGED <<engine, m_main_thread, loop, mq, destroyed, posted, ran>>
  /\ UNCHANGED <<bridgeVars, bindVars, scan, codec, win>>

\* webview_destroy, before run or after run has returned
Destroy ==
  /\ ~destroyed
  /\ loop.state # "running"
  /\ destroyed' = TRUE
  /\ heap' = heap \ destroy_frees(heap)
  /\ UNCHANGED <<engine, m_main_thread, loop, mq, quit, terminators, posted, ran>>
  /\ UNCHANGED <<bridgeVars, binds, scan, codec, win>>

\* the setup phase binds before anything is posted or run
LifeNext ==
  \/ (loop.state = "none" /\ posted = << >> /\ Bind(N_add, "cbA", "ctx1"))
  \/ (loop.state = "none" /\ posted = << >> /\ BindSync(N_sub, "echo"))
  \/ \E t \in Threads : EnterRun(t)
  \/ \E t \in Threads : Dispatch(t)
  \/ LoopTake
  \/ LoopExit
  \/ \E t \in Threads : Terminate(t)
  \/ Destroy

LifeSpec == LifeInit /\ [][LifeNext]_vars

\* with fairness: webview_run is called, the loop takes what its queue holds
\* and acts on a quit request
LifeLiveSpec ==
  /\ LifeInit
  /\ [][LifeNext]_vars
  /\ WF_vars(\E t \in Threads : EnterRun(t))
  /\ WF_vars(LoopTake)
  /\ WF_vars(LoopExit)

\* C12: when the webview is destroyed no allocation made by bind is live.
C12_BindingsReleased == destroyed => heap = {}

\* the closures that ran, ran in the order of their posts, each once
ExecutedInPostOrder ==
  \A i, j \in 1..Len(ran) : i < j => ran[i].fn < ran[j].fn

\* C13: posted closures run in FIFO order: when a closure runs, every closure
\* posted before it has run before it.
C13_PostedRunInOrder ==
  \A i \in 1..Len(ran) :
    \A a \in 1..(ran[i].fn - 1) :
      \E j \in 1..(i - 1) : ran[j].fn = a

\* C14: a closure posted after teardown began (terminate called while the
\* loop runs, or the loop has returned) is never executed.
C14_LatePostDropped ==
  \A i \in 1..Len(ran) : ~posted[ran[i].fn].teardown

\* termination has been asked for, or the webview is gone
Terminating ==
  terminators # {} \/ loop.state = "returned" \/ destroyed

\* function n was posted before any termination
PostedInTime(n) ==
  /\ n <= Len(posted)
  /\ terminators = {} /\ loop.state # "returned" /\ ~destroyed

HasRun(n) == \E i \in 1..Len(ran) : ran[i].fn = n

\* C15: every function posted before termination is eventually executed,
\* exactly once and on the thread that runs webview_run (unless termination
\* comes first).
C15_PostedEventuallyRuns ==
  /\ \A n \in 1..MaxPosts : PostedInTime(n) ~> (HasRun(n) \/ Terminating)
  /\ [](\A i, j \in 1..Len(ran) : ran[i].fn = ran[j].fn => i = j)
  /\ [](\A i \in 1..Len(ran) : ran[i].thread = loop.thread)

\* C16: after webview_terminate is called, from the run thread or from
\* another thread, while the loop runs, webview_run eventually returns.
C16_TerminateStopsLoop ==
  (\E x \in terminators : x.running) ~> (loop.state = "returned")

(***************************************************************************)
(* Rebinding.  The setup phase binds names, possibly the same name again   *)
(* with another callback and context, then the page calls them.            *)
(***************************************************************************)

RebindChoices == { <<"cbA", "ctx1">>, <<"cbB", "ctx2">> }

BindNext ==
  \/ \E n \in Names, c \in RebindChoices : Bind(n, c[1], c[2])
  \/ \E n \in Names : BindSync(n, "echo")
  \/ Run
  \/ LoadPage
  \/ \E n \in Names : JSCall(n, A_23)
  \/ OnMessage

BindSpec == Init /\ [][BindNext]_vars

\* the latest bind call made for a name
LastBind(name) ==
  LET i == CHOOSE j \in 1..Len(binds) :
              /\ binds[j].name = name
              /\ \A k \in (j + 1)..Len(binds) : binds[k].name # name
  IN  [f |-> binds[i].f, arg |-> binds[i].arg]

\* C11: after any sequence of bind calls the table holds exactly one
\* callback+context pair per registered name, the pair of the last bind for
\* that name, and a message for a name invokes only that callback with that
\* context.
C11_LastBindWins ==
  /\ [](/\ DOMAIN bindings = {binds[i].name : i \in 1..Len(binds)}
        /\ \A n \in DOMAIN bindings : bindings[n] = LastBind(n))
  /\ [][ (Delivered /\ Head(channel).env.method \in DOMAIN bindings)
          => /\ Len(last'.invoked) = 1
             /\ last'.invoked[1].f = LastBind(Head(channel).env.method).f
             /\ last'.invoked[1].arg = LastBind(Head(channel).env.method).arg
        ]_vars

\* a name bound twice with different callbacks and contexts was called
C11_Witness ==
  /\ Len(binds) = 2
  /\ binds[1].name = binds[2].name
  /\ binds[1].f = "cbA" /\ binds[2].f = "cbB"
  /\ binds[1].arg # binds[2].arg
  /\ last.n > 0
  /\ last.msg.env.method = binds[2].name
  /\ Len(last.invoked) = 1
  /\ last.invoked[1].f = "cbB"

(***************************************************************************)
(* json_parse_c run step by step on documents built from their members,    *)
(* so that the span of every member is known from the construction.        *)
(***************************************************************************)

MaxIndex == 3      \* positional indices 0..MaxIndex

V_1    == <<49>>                                  \* 1
V_true == <<116, 114, 117, 101>>                  \* true
V_x    == <<34, 120, 34>>                         \* "x"
V_b    == <<34, 98, 34>>                          \* "b"
V_del  == <<34, 127, 34>>                         \* "<DEL>"
V_arr  == <<91, 49, 44, 50, 44, 51, 93>>          \* [1,2,3]
V_obj  == <<123, 34, 98, 34, 58, 50, 125>>        \* {"b":2}

Member(k, v) == [key |-> k, value |-> v]

ScanDocs ==
  { [kind |-> "object", ms |-> <<Member(<<97>>, V_1), Member(<<98>>, V_arr),
                                 Member(<<99>>, V_x)>>],
    [kind |-> "object", ms |-> <<Member(<<97>>, V_b), Member(<<98>>, V_1)>>],
    [kind |-> "object", ms |-> <<Member(<<97>>, V_obj), Member(<<98>>, V_true)>>],
    [kind |-> "object", ms |-> <<Member(<<97>>, V_del)>>],
    [kind |-> "object", ms |-> << >>],
    [kind |-> "array",  ms |-> <<Member(<< >>, V_1), Member(<< >>, <<50>>),
                                 Member(<< >>, <<51>>)>>],
    [kind |-> "array",  ms |-> <<Member(<< >>, V_x), Member(<< >>, V_arr),
                                 Member(<< >>, V_true)>>],
    [kind |-> "array",  ms |-> <<Member(<< >>, V_del)>>],
    [kind |-> "array",  ms |-> << >>],
    [kind |-> "bare",   ms |-> <<Member(<< >>, V_1)>>],
    [kind |-> "bare",   ms |-> <<Member(<< >>, V_x)>>],
    [kind |-> "bare",   ms |-> <<Member(<< >>, <<32>>)>>],
    [kind |-> "bare",   ms |-> << >>] }

\* how the document is laid out: {"a":1,"b":2}, {"a": 1, "b": 2}, or one
\* member per line
Styles == {"compact", "spaced", "lines"}

Sep(style) ==
  CASE style = "compact" -> <<44>>
    [] style = "spaced"  -> <<44, 32>>
    [] style = "lines"   -> <<44, 10>>

Colon(style) == IF style = "spaced" THEN <<58, 32>> ELSE <<58>>

Open(kind, style) ==
  (IF kind = "object" THEN <<123>> ELSE IF kind = "array" THEN <<91>> ELSE << >>)
    \o (IF style = "lines" /\ kind # "bare" THEN <<10>> ELSE << >>)

Close(kind, style) ==
  (IF style = "lines" /\ kind # "bare" THEN <<10>> ELSE << >>)
    \o (IF kind = "object" THEN <<125>> ELSE IF kind = "array" THEN <<93>> ELSE << >>)

\* text written so far and the span of every member value in it
RECURSIVE RenderMembers(_, _, _, _, _)
RenderMembers(kind, ms, style, i, acc) ==
  IF i > Len(ms) THEN acc
  ELSE LET head == acc.text
                     \o (IF i > 1 THEN Sep(style) ELSE << >>)
                     \o (IF kind = "object"
                         THEN Quoted(ms[i].key) \o Colon(style) ELSE << >>)
       IN  RenderMembers(kind, ms, style, i + 1,
             [ text  |-> head \o ms[i].value,
               spans |-> Append(acc.spans,
                           [start |-> Len(head) + 1, len |-> Len(ms[i].value)]) ])

Render(d, style) ==
  LET r == RenderMembers(d.kind, d.ms, style, 1,
                         [text |-> Open(d.kind, style), spans |-> << >>])
  IN  [ text  |-> r.text \o Close(d.kind, style),
        kind  |-> d.kind,
        keys  |-> [i \in 1..Len(d.ms) |-> d.ms[i].key],
        spans |-> r.spans ]

\* the key and keysz arguments: a key with its length (also the empty key),
\* or a null key with the index in keysz
Queries ==
  { [key |-> k, keysz |-> Len(k)] : k \in {<<97>>, <<98>>, <<99>>, <<122>>, << >>} }
    \cup { [key |-> NULL, keysz |-> i] : i \in 0..MaxIndex }

ScanInit ==
  /\ BridgeInit
  /\ engine = "any"
  /\ LifeIdle
  /\ codec = NoCodec
  /\ \E d \in ScanDocs, style \in Styles, q \in Queries :
       \E r \in {Render(d, style)} :
         scan = [ text |-> r.text, key |-> q.key, keysz |-> q.keysz,
                  doc |-> [kind |-> r.kind, keys |-> r.keys, spans |-> r.spans],
                  st |-> json_init(Len(r.text), q.key, q.keysz) ]

\* one iteration of the for loop
ScanStep ==
  /\ ~scan.st.done
  /\ scan.st.sz > 0
  /\ scan' = [scan EXCEPT !.st = json_step(scan.text, scan.key, scan.st)]
  /\ UNCHANGED <<bridgeVars, bindVars, lifeVars, codec>>

\* the buffer is exhausted: return -1
ScanEnd ==
  /\ ~scan.st.done
  /\ scan.st.sz <= 0
  /\ scan' = [scan EXCEPT !.st = [scan.st EXCEPT !.done = TRUE, !.ret = -1]]
  /\ UNCHANGED <<bridgeVars, bindVars, lifeVars, codec>>

ScanNext == ScanStep \/ ScanEnd

ScanSpec == ScanInit /\ [][ScanNext]_vars

\* the call has returned success with exactly the span of member i
ReturnsMember(i) ==
  /\ scan.st.ret = 0
  /\ scan.st.value = scan.doc.spans[i].start
  /\ scan.st.valuesz = scan.doc.spans[i].len

\* the key searched is the key of member i
KeyOfMember(i) ==
  /\ scan.key # NULL
  /\ i \in 1..Len(scan.doc.keys)
  /\ scan.key = scan.doc.keys[i]

\* C17: key search on a valid object, for a key present in it, returns
\* success and exactly the span of that key's value.
C17_KeySearchExactSpan ==
  (scan.st.done /\ scan.doc.kind = "object") =>
    \A i \in 1..Len(scan.doc.keys) : KeyOfMember(i) => ReturnsMember(i)

\* C18: positional search on a valid array with an index in range returns
\* success and exactly the span of that element (0-based).
C18_ArrayIndexExactSpan ==
  (scan.st.done /\ scan.doc.kind = "array" /\ scan.key = NULL
     /\ scan.keysz < Len(scan.doc.spans))
    => ReturnsMember(scan.keysz + 1)

\* C19: positional search on an object designates the value of the i-th
\* member (0-based); keys are not counted as positions.
C19_ObjectIndexIsMember ==
  (scan.st.done /\ scan.doc.kind = "object" /\ scan.key = NULL
     /\ scan.keysz < Len(scan.doc.spans))
    => ReturnsMember(scan.keysz + 1)

\* the depth-1 children of the document: the elements of an array, the keys
\* and the values of an object
Children ==
  CASE scan.doc.kind = "array"  -> Len(scan.doc.spans)
    [] scan.doc.kind = "object" -> 2 * Len(scan.doc.spans)
    [] scan.doc.kind = "bare"   -> 0

\* the key is absent from the object, the index is beyond every child, the
\* container is empty or the buffer holds no container
NotFound ==
  \/ scan.doc.kind = "object" /\ scan.key # NULL
       /\ \A i \in 1..Len(scan.doc.keys) : scan.key # scan.doc.keys[i]
  \/ scan.key = NULL /\ scan.keysz >= Children
  \/ scan.doc.kind \in {"object", "array"} /\ scan.doc.spans = << >>
  \/ scan.doc.kind = "bare"

\* C20: not found: json_parse_c returns failure with a null value and size 0.
C20_NotFoundFails ==
  (scan.st.done /\ NotFound) =>
    (scan.st.ret = -1 /\ scan.st.value = 0 /\ scan.st.valuesz = 0)

\* not found, with a key of at least one byte
NotFoundNonEmptyKey ==
  (scan.st.done /\ NotFound /\ (scan.key # NULL => scan.keysz > 0)) =>
    (scan.st.ret = -1 /\ scan.st.value = 0 /\ scan.st.valuesz = 0)

(***************************************************************************)
(* json_parse_c on arbitrary byte buffers: every buffer of up to MaxRawLen *)
(* bytes over RawAlphabet, buffers malformed in a known way, and objects   *)
(* whose keys are written with escapes.  The bytes the call reads are      *)
(* recorded.                                                               *)
(***************************************************************************)

MaxRawLen == 4     \* length of the exhaustively enumerated buffers

\* [ " \ 1 , LF and the two bytes of a UTF-8 sequence (C3 A9)
RawAlphabet == {91, 34, 92, 49, 44, 10, 195, 169}

ShortBuffers == UNION { [1..n -> RawAlphabet] : n \in 0..MaxRawLen }

\* buffers with a control character inside a literal, an unterminated
\* string, an invalid UTF-8 continuation byte; the first element is intact
MalformedBuffers ==
  { [text |-> <<91, 49, 44, 50, 1, 51, 93>>,        malformed |-> "control"],
    [text |-> <<91, 34, 120, 34, 44, 52, 1, 93>>,   malformed |-> "control"],
    [text |-> <<91, 49, 44, 34, 120>>,              malformed |-> "unterminated"],
    [text |-> <<123, 34, 97, 34, 58, 49, 44, 34, 98, 34, 58, 34, 120>>,
                                                    malformed |-> "unterminated"],
    [text |-> <<91, 49, 44, 34, 195, 40, 34, 93>>,  malformed |-> "utf8"],
    [text |-> <<91, 34, 195, 34, 93>>,              malformed |-> "utf8"],
    [text |-> <<91, 34, 226, 130, 34, 93>>,         malformed |-> "utf8"] }

K_slash     == <<97, 47, 98>>                       \* a/b
K_slash_esc == <<97, 92, 47, 98>>                   \* a\/b
K_quote     == <<113, 34>>                          \* q"
K_quote_esc == <<113, 92, 34>>                      \* q\"
V_esc       == <<34, 92, 34, 92, 92, 34>>           \* "\"\\"

\* objects whose keys use escape sequences, and a string value with escapes
EscapedDocs ==
  { [kind |-> "object", ms |-> <<Member(K_slash_esc, V_1), Member(<<98>>, V_x)>>],
    [kind |-> "object", ms |-> <<Member(<<98>>, V_x), Member(K_quote_esc, V_arr)>>],
    [kind |-> "object", ms |-> <<Member(<<97>>, V_esc), Member(<<98>>, V_1)>>],
    [kind |-> "array",  ms |-> <<Member(<< >>, V_esc), Member(<< >>, V_1)>>] }

\* [7<t>2] for each byte t that ends a literal
LiteralBuffers ==
  { <<91, 55, t, 50, 93>> : t \in {32, 9, 10, 13, 44, 93, 125, 58} }

RawQueries ==
  { [key |-> k, keysz |-> Len(k)] : k \in {<<49>>, <<97>>, K_slash, K_quote} }
    \cup { [key |-> NULL, keysz |-> i] : i \in 0..2 }

RawScan(text, q, doc) ==
  [ text |-> text, key |-> q.key, keysz |-> q.keysz, doc |-> doc,
    st |-> json_init(Len(text), q.key, q.keysz), reads |-> {},
    examined |-> [i \in 1..Len(text) |-> 0],
    returned |-> FALSE, parsed |-> << >> ]

\* buffers with a closing bracket that has no opening one: ] or } in front of
\* [[1]], [1], {{"1":1}} and [{"1":[1]}], and [1]][[1]]
CloserBuffers ==
  { <<c>> \o b : c \in {93, 125},
                 b \in { <<91, 91, 49, 93, 93>>, <<91, 49, 93>>,
                         <<123, 123, 34, 49, 34, 58, 49, 125, 125>>,
                         <<91, 123, 34, 49, 34, 58, 91, 49, 93, 125, 93>> } }
    \cup { <<91, 49, 93, 93, 91, 91, 49, 93, 93>> }

RawInit ==
  /\ BridgeInit
  /\ engine = "any"
  /\ LifeIdle
  /\ codec = NoCodec
  /\ \E q \in RawQueries :
       \/ \E t \in ShortBuffers :
            scan = RawScan(t, q, [kind |-> "raw", keys |-> << >>,
                                  spans |-> << >>, malformed |-> "unknown"])
       \/ \E t \in LiteralBuffers :
            scan = RawScan(t, q, [kind |-> "raw", keys |-> << >>,
                                  spans |-> << >>, malformed |-> "unknown"])
       \/ \E b \in MalformedBuffers :
            scan = RawScan(b.text, q, [kind |-> "raw", keys |-> << >>,
                                       spans |-> << >>, malformed |-> b.malformed])
       \/ \E d \in EscapedDocs : \E r \in {Render(d, "compact")} :
            scan = RawScan(r.text, q, [kind |-> r.kind, keys |-> r.keys,
                                       spans |-> r.spans, malformed |-> "none"])
       \/ \E t \in CloserBuffers :
            scan = RawScan(t, q, [kind |-> "raw", keys |-> << >>,
                                  spans |-> << >>, malformed |-> "closer"])

\* variant: memcmp without the test of the lengths
json_key_reads_noLengthTest(st, r) ==
  IF /\ (IF r.action = "END_STRUCT" THEN st.depth - 1 ELSE st.depth) = 1
     /\ r.action \in {"END", "END_STRUCT"}
     /\ ~(st.value # 0 /\ st.index = 0)
     /\ st.keysz > 0 /\ st.k # 0
  THEN (st.k + 1)..(st.k + st.keysz)
  ELSE {}

\* the bytes of the buffer read by memcmp(key, k + 1, keysz), which runs
\* when a depth-1 value ends with a tentative key pending and the lengths
\* agree
json_key_reads(st, r) ==
  IF /\ (IF r.action = "END_STRUCT" THEN st.depth - 1 ELSE st.depth) = 1
     /\ r.action \in {"END", "END_STRUCT"}
     /\ ~(st.value # 0 /\ st.index = 0)
     /\ st.keysz > 0 /\ st.k # 0
     /\ st.keysz = r.pos - st.k - 1
  THEN (st.k + 1)..(st.k + st.keysz)
  ELSE {}

\* what one iteration reads: unsigned char c = *s, and the key comparison
json_step_reads(s, st) ==
  LET r == json_switch(s[st.pos], st)
  IN  {st.pos} \cup (IF r.abort \/ r.cont THEN {} ELSE json_key_reads(st, r))

\* one iteration of the for loop, with the reads it makes
RawStep ==
  /\ ~scan.st.done
  /\ scan.st.sz > 0
  /\ scan' = [scan EXCEPT !.st = json_step(scan.text, scan.key, scan.st),
                          !.reads = @ \cup json_step_reads(scan.text, scan.st),
                          !.examined[scan.st.pos] = @ + 1]
  /\ UNCHANGED <<bridgeVars, bindVars, lifeVars, codec>>

\* the buffer is exhausted: return -1
RawEnd ==
  /\ ~scan.st.done
  /\ scan.st.sz <= 0
  /\ scan' = [scan EXCEPT !.st = [scan.st EXCEPT !.done = TRUE, !.ret = -1]]
  /\ UNCHANGED <<bridgeVars, bindVars, lifeVars, codec>>

RawNext == RawStep \/ RawEnd

RawScanSpec == RawInit /\ [][RawNext]_vars

\* the for loop is straight-line code on the calling thread: it goes on
RawLiveSpec == RawInit /\ [][RawNext]_vars /\ WF_vars(RawNext)

\* C21: whenever json_parse_c returns -1 the result span is empty: value is
\* NULL and valuesz is 0.
C21_FailureLeavesSpanEmpty ==
  (scan.st.done /\ scan.st.ret = -1) =>
    (scan.st.value = 0 /\ scan.st.valuesz = 0)

\* on failure the size is 0 (the pointer may be left set)
FailureSizeZero ==
  (scan.st.done /\ scan.st.ret = -1) => scan.st.valuesz = 0

\* C22: a buffer with a control character inside a literal, an unterminated
\* string or an invalid UTF-8 continuation byte makes json_parse_c fail,
\* whatever key or index is searched.
C22_MalformedAlwaysFails ==
  (scan.st.done /\ scan.doc.malformed \in {"control", "unterminated", "utf8"})
    => scan.st.ret = -1

\* the scan has read the offending byte, or the end of an unterminated string
ReachedMalformedPart ==
  \/ scan.doc.malformed = "unterminated" /\ scan.st.sz <= 0
  \/ scan.doc.malformed = "control"
       /\ \E i \in scan.reads : scan.text[i] = 1
  \/ scan.doc.malformed = "utf8"
       /\ \E i \in scan.reads : i > 1 /\ scan.text[i - 1] \in {195, 130}
                                      /\ scan.text[i] \in {40, 34}

\* a malformed buffer fails once the scan gets to the malformed part
MalformedFailsWhenReached ==
  (scan.st.done /\ ReachedMalformedPart) => scan.st.ret = -1

\* C23: json_parse_c reads only bytes inside [s, s + sz): the loop (also
\* after the step back that ends a literal) and the key comparison never
\* read before the first or past the last byte.
C23_ReadsInsideBuffer ==
  /\ scan.reads \subseteq 1..Len(scan.text)
  /\ (~scan.st.done /\ scan.st.sz > 0) => scan.st.pos \in 1..Len(scan.text)
  /\ ~scan.st.done => scan.st.pos + scan.st.sz = Len(scan.text) + 1

\* a key comparison that matched on the last bytes of the buffer: every
\* byte has been read, the last ones by the loop and by memcmp
C23_Witness ==
  /\ scan.key # NULL /\ scan.st.keysz > 0
  /\ scan.st.index = 0 /\ scan.st.k = 0
  /\ scan.st.sz = 0
  /\ scan.text # << >>
  /\ scan.reads = 1..Len(scan.text)

\* the loop is about to read byte c in the LITERAL state
InLiteralAt(c) ==
  /\ ~scan.st.done /\ scan.st.sz > 0
  /\ scan.st.state = "LITERAL"
  /\ scan.text[scan.st.pos] = c

\* the literal has ended without consuming the byte: the scan goes on in the
\* VALUE state at the same byte, or returns the literal as the result with
\* a span that ends just before the byte
LiteralEnded ==
  /\ ~(scan'.st.done /\ scan'.st.ret = -1)
  /\ scan'.st.state = "VALUE"
  /\ scan'.st.pos = scan.st.pos
  /\ scan'.st.done =>
       scan'.st.value + scan'.st.valuesz = scan.st.pos

\* C24: a literal ends on comma, ], }, : and on space, tab, line feed and
\* carriage return, without consuming the byte and without aborting.
C24_LiteralTerminates ==
  [][ \A c \in {44, 93, 125, 58, 32, 9, 10, 13} :
        InLiteralAt(c) => LiteralEnded ]_vars

\* the same for the terminators that are not control characters
LiteralTerminatesOnPrintable ==
  [][ \A c \in {44, 93, 125, 58, 32} :
        InLiteralAt(c) => LiteralEnded ]_vars

\* the text of member i's key once its escape sequences are decoded
UnescapedKey(i) ==
  json_unescape(Quoted(scan.doc.keys[i]), 1, Len(scan.doc.keys[i]) + 2).out

\* C25: in key search a key written with escape sequences matches the
\* target whose bytes equal the unescaped key, and the value following it is
\* returned.
C25_KeyComparedUnescaped ==
  (scan.st.done /\ scan.doc.kind = "object" /\ scan.key # NULL) =>
    \A i \in 1..Len(scan.doc.keys) :
      scan.key = UnescapedKey(i) => ReturnsMember(i)

\* the same for the keys written without escape sequences
KeyComparedRaw ==
  (scan.st.done /\ scan.doc.kind = "object" /\ scan.key # NULL) =>
    \A i \in 1..Len(scan.doc.keys) :
      scan.key = scan.doc.keys[i] => ReturnsMember(i)

\* the first quote at or after i that is not the second byte of an escape
RECURSIVE FirstUnescapedQuote(_, _)
FirstUnescapedQuote(s, i) ==
  IF i > Len(s) THEN 0
  ELSE IF s[i] = 92 THEN FirstUnescapedQuote(s, i + 2)
  ELSE IF s[i] = 34 THEN i
  ELSE FirstUnescapedQuote(s, i + 1)

\* the loop is about to read byte c in the given state
InStateAt(state, c) ==
  /\ ~scan.st.done /\ scan.st.sz > 0
  /\ scan.st.state = state
  /\ scan.text[scan.st.pos] = c

\* C26: inside a string a quote ends the string only when read in the STRING
\* state: after a backslash it keeps the string open, where a UTF-8
\* continuation byte is expected it (like every byte outside 0x80..0xBF)
\* aborts the scan; the span of a string value ends at its first unescaped
\* quote.
C26_QuoteEndsStringOnlyUnescaped ==
  /\ []( (scan.st.done /\ scan.st.ret = 0 /\ scan.text[scan.st.value] = 34)
           => scan.st.value + scan.st.valuesz - 1
                = FirstUnescapedQuote(scan.text, scan.st.value + 1) )
  /\ [][ InStateAt("ESCAPE", 34)
           => (~scan'.st.done /\ scan'.st.state = "STRING") ]_vars
  /\ [][ (/\ ~scan.st.done /\ scan.st.sz > 0
           /\ scan.st.state = "UTF8"
           /\ scan.text[scan.st.pos] \notin 128..191)
           => (scan'.st.done /\ scan'.st.ret = -1) ]_vars

\* a string value with an escaped quote inside has been returned
C26_Witness ==
  /\ scan.st.done /\ scan.st.ret = 0
  /\ scan.text[scan.st.value] = 34
  /\ \E i \in (scan.st.value + 1)..(scan.st.value + scan.st.valuesz - 2) :
       scan.text[i] = 34 /\ scan.text[i - 1] = 92

(***************************************************************************)
(* The string codecs called on their own: json_escape, json_unescape with  *)
(* and without an output buffer, url_encode and url_decode.                *)
(***************************************************************************)

MaxBody == 3       \* length of the exhaustively enumerated string bodies

\* json_escape: return '"' + s + '"'
json_escape(s) == <<34>> \o s \o <<34>>

\* json_unescape(s, n, NULL): the same loop, nothing is written
RECURSIVE json_unescape_null_loop(_, _, _, _)
json_unescape_null_loop(s, p, n, r) ==
  IF n > 2 THEN
    IF ByteAt(s, p) = 92 THEN
      IF UnescapeChar(ByteAt(s, p + 1)) = -1 THEN [r |-> -1, out |-> << >>]
      ELSE json_unescape_null_loop(s, p + 2, n - 2, r + 1)
    ELSE json_unescape_null_loop(s, p + 1, n - 1, r + 1)
  ELSE IF ByteAt(s, p) # 34 THEN [r |-> -1, out |-> << >>]
  ELSE [r |-> r, out |-> << >>]

json_unescape_null(s, p, n) ==
  IF ByteAt(s, p) # 34 THEN [r |-> -1, out |-> << >>]
  ELSE json_unescape_null_loop(s, p + 1, n, 0)

\* what json_unescape(s, n, out) leaves in out: the bytes written by the
\* loop and, when it returns a length, the final '\0'
json_unescape_written(u) == IF u.r >= 0 THEN u.out \o <<0>> ELSE u.out

\* a \ " n u /
BodyAlphabet == {97, 92, 34, 110, 117, 47}

ShortBodies == UNION { [1..n -> BodyAlphabet] : n \in 0..MaxBody }

\* A, aé and a body with each of the eight two-byte escapes
LongBodies ==
  { <<92, 117, 48, 48, 52, 49>>,
    <<97, 92, 117, 48, 48, 101, 57>>,
    <<92, 98, 92, 102, 92, 110, 92, 114, 92, 116, 92, 92, 92, 47, 92, 34>>,
    <<120, 92, 110, 121, 92, 120>> }

NoResult == [r |-> -2, out |-> << >>]

CodecCall(fn, arg, env, text, stage) ==
  [ fn |-> fn, arg |-> arg, env |-> env, text |-> text, stage |-> stage,
    dry |-> NoResult, wet |-> NoResult, written |-> << >>, reads |-> {} ]

NoBuild == [charSigned |-> FALSE, alnumNegative |-> FALSE]

\* json_unescape(s, n, NULL), as json_parse calls it first
UnescapeDry ==
  /\ codec.fn \in {"json_unescape", "json_escape"}
  /\ codec.stage = "start"
  /\ codec' = [codec EXCEPT
                 !.dry = json_unescape_null(codec.text, 1, Len(codec.text)),
                 !.stage = "measured"]
  /\ UNCHANGED <<bridgeVars, bindVars, lifeVars, scan>>

\* json_unescape(s, n, out) with a buffer
UnescapeWrite ==
  /\ codec.fn \in {"json_unescape", "json_escape"}
  /\ codec.stage = "measured"
  /\ \E u \in {json_unescape(codec.text, 1, Len(codec.text))} :
       codec' = [codec EXCEPT !.wet = u,
                              !.written = json_unescape_written(u),
                              !.stage = "done"]
  /\ UNCHANGED <<bridgeVars, bindVars, lifeVars, scan>>

\* the bytes between the quotes form a JSON string body from index i on: no
\* bare quote, no backslash without a byte after it
RECURSIVE IsStringBody(_, _)
IsStringBody(b, i) ==
  IF i > Len(b) THEN TRUE
  ELSE IF b[i] = 92 THEN i < Len(b) /\ IsStringBody(b, i + 2)
  ELSE IF b[i] = 34 THEN FALSE
  ELSE IsStringBody(b, i + 1)

\* the body has, from index i on, an escape other than \b \f \n \r \t \\ \/ \"
RECURSIVE HasUnsupportedEscape(_, _)
HasUnsupportedEscape(b, i) ==
  IF i >= Len(b) THEN FALSE
  ELSE IF b[i] = 92
       THEN b[i + 1] \notin {98, 102, 110, 114, 116, 92, 47, 34}
              \/ HasUnsupportedEscape(b, i + 2)
  ELSE HasUnsupportedEscape(b, i + 1)

\* " \ and the control characters with a named escape: \b \t \n \f \r
EscapeAlphabet == {34, 92, 8, 9, 10, 12, 13}

EscapeInputs == UNION { [1..n -> EscapeAlphabet] : n \in 0..(MaxBody - 1) }

\* json_escape(s), the text then goes through json_unescape
Escape ==
  /\ codec.fn = "json_escape"
  /\ codec.stage = "escape"
  /\ codec' = [codec EXCEPT !.text = json_escape(codec.arg), !.stage = "start"]
  /\ UNCHANGED <<bridgeVars, bindVars, lifeVars, scan>>

\* what the build decides: whether plain char is signed, and what isalnum
\* answers for a negative argument (undefined behaviour of <cctype>)
Builds == [charSigned : BOOLEAN, alnumNegative : BOOLEAN]

\* isalnum in the "C" locale
isalnum(c) ==
  (c >= 48 /\ c <= 57) \/ (c >= 65 /\ c <= 90) \/ (c >= 97 /\ c <= 122)

HexDigit(d) == IF d < 10 THEN 48 + d ELSE 87 + d

\* %x of an unsigned int
RECURSIVE HexText(_)
HexText(v) ==
  IF v < 16 THEN <<HexDigit(v)>>
  ELSE HexText(v \div 16) \o <<HexDigit(v % 16)>>

\* %02x of a value below 256
Hex02(v) == IF v < 16 THEN <<48>> \o HexText(v) ELSE HexText(v)

\* the char c (byte b of the string) passed to snprintf for %x: promoted to
\* int and read as unsigned int; the 32 bits are kept as the upper 24 and
\* the lower 8: a negative char is sign-extended
PromotedChar(b, env) ==
  [ hi |-> IF env.charSigned /\ b >= 128 THEN 16777215 ELSE 0, lo |-> b ]

\* %02x of the promoted value
Hex02Promoted(v) ==
  IF v.hi = 0 THEN Hex02(v.lo) ELSE HexText(v.hi) \o Hex02(v.lo)

\* char hex[4]; snprintf(hex, sizeof(hex), "%%%02x", c): three characters
\* and the terminator fit
url_encode_char(b, env) ==
  IF \/ (IF env.charSigned /\ b >= 128 THEN env.alnumNegative ELSE isalnum(b))
     \/ b \in {45, 95, 46, 126}
  THEN <<b>>
  ELSE SubSeq(<<37>> \o Hex02Promoted(PromotedChar(b, env)), 1, 3)

RECURSIVE url_encode_loop(_, _, _, _)
url_encode_loop(s, i, env, encoded) ==
  IF i > Len(s) THEN encoded
  ELSE url_encode_loop(s, i + 1, env, encoded \o url_encode_char(s[i], env))

url_encode(s, env) == url_encode_loop(s, 1, env, << >>)

hex2nibble(c) ==
  IF c >= 48 /\ c <= 57 THEN c - 48
  ELSE IF c >= 97 /\ c <= 102 THEN 10 + (c - 97)
  ELSE IF c >= 65 /\ c <= 70 THEN 10 + (c - 65)
  ELSE 0

\* hex2char(s + p): p[0] and p[1] are read
hex2char(s, p) == (hex2nibble(ByteAt(s, p)) * 16 + hex2nibble(ByteAt(s, p + 1))) % 256

\* strlen: the number of bytes of memory s before its first zero byte
strlen(s) ==
  (CHOOSE i \in 1..Len(s) : s[i] = 0 /\ \A j \in 1..(i - 1) : s[j] # 0) - 1

\* url_decode with a test for the two bytes after '%' (the code has none)
RECURSIVE url_decode_loop_guarded(_, _, _, _)
url_decode_loop_guarded(s, length, i, acc) ==
  IF i > length THEN acc
  ELSE IF s[i] = 37 /\ i + 2 <= length
       THEN url_decode_loop_guarded(s, length, i + 3,
              [ decoded |-> Append(acc.decoded, hex2char(s, i + 1)),
                reads   |-> acc.reads \cup {i, i + 1, i + 2} ])
  ELSE url_decode_loop_guarded(s, length, i + 1,
              [ decoded |-> Append(acc.decoded, IF s[i] = 43 THEN 32 ELSE s[i]),
                reads   |-> acc.reads \cup {i} ])

\* the loop of url_decode over the first length bytes of the memory s (the
\* string, its terminator and what lies after it), with the indices read
RECURSIVE url_decode_loop(_, _, _, _)
url_decode_loop(s, length, i, acc) ==
  IF i > length THEN acc
  ELSE IF s[i] = 37
       THEN url_decode_loop(s, length, i + 3,
              [ decoded |-> Append(acc.decoded, hex2char(s, i + 1)),
                reads   |-> acc.reads \cup {i, i + 1, i + 2} ])
  ELSE IF s[i] = 43
       THEN url_decode_loop(s, length, i + 1,
              [ decoded |-> Append(acc.decoded, 32),
                reads   |-> acc.reads \cup {i} ])
  ELSE url_decode_loop(s, length, i + 1,
              [ decoded |-> Append(acc.decoded, s[i]),
                reads   |-> acc.reads \cup {i} ])

\* url_decode on the memory behind st.c_str()
url_decode_mem(s) ==
  url_decode_loop(s, strlen(s), 1, [decoded |-> << >>, reads |-> {}])

url_decode(s) == url_decode_mem(s \o <<0>>)

\* A z 0 - ~ space + % / LF and bytes with the top bit set
UrlAlphabet == {65, 122, 48, 45, 126, 32, 43, 37, 47, 10, 128, 233, 255}

UrlInputs == UNION { [1..n -> UrlAlphabet] : n \in 0..(MaxBody - 1) }

\* url_encode(s), as navigate calls it
UrlEncode ==
  /\ codec.fn = "url_encode"
  /\ codec.stage = "encode"
  /\ codec' = [codec EXCEPT !.text = url_encode(codec.arg, codec.env),
                            !.stage = "encoded"]
  /\ UNCHANGED <<bridgeVars, bindVars, lifeVars, scan>>

\* url_decode of the encoded text
UrlDecode ==
  /\ codec.fn = "url_encode"
  /\ codec.stage = "encoded"
  /\ \E u \in {url_decode(codec.text)} :
       codec' = [codec EXCEPT !.written = u.decoded, !.stage = "done"]
  /\ UNCHANGED <<bridgeVars, bindVars, lifeVars, scan>>

\* % 4 1 a + : escapes, complete and cut short
UrlRawAlphabet == {37, 52, 49, 97, 43}

UrlRawInputs == UNION { [1..n -> UrlRawAlphabet] : n \in 0..MaxBody }

\* what the byte after the terminator of st.c_str() may hold
BeyondBytes == {0, 65, 255}

\* url_decode(s) on any text, as html_from_uri calls it: the byte after the
\* terminator is not the string's, a read of it yields any value
UrlDecodeRaw ==
  /\ codec.fn = "url_decode"
  /\ codec.stage = "start"
  /\ \E beyond \in BeyondBytes :
       \E u \in {url_decode_mem(codec.arg \o <<0, beyond>>)} :
         codec' = [codec EXCEPT !.written = u.decoded, !.reads = u.reads,
                                !.stage = "done"]
  /\ UNCHANGED <<bridgeVars, bindVars, lifeVars, scan>>

CodecInit ==
  /\ BridgeInit
  /\ engine = "any"
  /\ LifeIdle
  /\ scan = NoScan
  /\ \/ \E b \in ShortBodies \cup LongBodies :
          codec = CodecCall("json_unescape", b, NoBuild, Quoted(b), "start")
     \/ \E s \in EscapeInputs :
          codec = CodecCall("json_escape", s, NoBuild, << >>, "escape")
     \/ \E s \in UrlInputs, env \in Builds :
          codec = CodecCall("url_encode", s, env, << >>, "encode")
     \/ \E s \in UrlRawInputs :
          codec = CodecCall("url_decode", s, NoBuild, s, "start")

CodecNext ==
  Escape \/ UnescapeDry \/ UnescapeWrite \/ UrlEncode \/ UrlDecode \/ UrlDecodeRaw

CodecSpec == CodecInit /\ [][CodecNext]_vars

\* C27: json_unescape returns -1 for every string with a \uXXXX escape or any
\* escape outside \b \f \n \r \t \\ \/ \", in the call without and in the
\* call with an output buffer.
C27_UnsupportedEscapeRejected ==
  (/\ codec.fn = "json_unescape"
   /\ IsStringBody(codec.arg, 1)
   /\ HasUnsupportedEscape(codec.arg, 1))
    => /\ codec.stage \in {"measured", "done"} => codec.dry.r = -1
       /\ codec.stage = "done" => codec.wet.r = -1

\* both calls have returned for "A"
C27_Witness ==
  /\ codec.fn = "json_unescape"
  /\ codec.stage = "done"
  /\ codec.arg = <<92, 117, 48, 48, 52, 49>>
  /\ codec.dry.r = -1 /\ codec.wet.r = -1

\* C28: json_unescape applied to json_escape(s) succeeds and yields s, for
\* every s made of ", \ and the control characters with a named escape.
C28_EscapeUnescapeInverse ==
  (codec.fn = "json_escape" /\ codec.stage = "done") =>
    (codec.wet.r = Len(codec.arg) /\ codec.wet.out = codec.arg
       /\ codec.dry.r = Len(codec.arg))

\* the round trip of the strings without a backslash
EscapeUnescapeNoBackslash ==
  (codec.fn = "json_escape" /\ codec.stage = "done"
     /\ \A i \in 1..Len(codec.arg) : codec.arg[i] # 92) =>
    (codec.wet.r = Len(codec.arg) /\ codec.wet.out = codec.arg)

\* the character a two-byte escape stands for
EscapeMeaning(c) ==
  CASE c = 98 -> 8 [] c = 102 -> 12 [] c = 110 -> 10 [] c = 114 -> 13
    [] c = 116 -> 9 [] OTHER -> c

\* the decoded bytes of a string body that uses only the supported escapes
RECURSIVE Decoded(_, _)
Decoded(b, i) ==
  IF i > Len(b) THEN << >>
  ELSE IF b[i] = 92 THEN <<EscapeMeaning(b[i + 1])>> \o Decoded(b, i + 2)
  ELSE <<b[i]>> \o Decoded(b, i + 1)

\* C29: for a quoted string that uses only the supported escapes
\* json_unescape returns the number of decoded bytes, each two-byte escape
\* counting and written as one byte; the call without a buffer returns the
\* same count and writes nothing, the call with a buffer writes exactly
\* these bytes followed by a NUL.
C29_UnescapeCountsAndWrites ==
  (/\ codec.fn = "json_unescape"
   /\ IsStringBody(codec.arg, 1)
   /\ ~HasUnsupportedEscape(codec.arg, 1))
    => /\ codec.stage \in {"measured", "done"} =>
            (codec.dry.r = Len(Decoded(codec.arg, 1)) /\ codec.dry.out = << >>)
       /\ codec.stage = "done" =>
            (/\ codec.wet.r = codec.dry.r
             /\ codec.written = Decoded(codec.arg, 1) \o <<0>>)

\* both calls have returned 8 for the body with the eight escapes
C29_Witness ==
  /\ codec.fn = "json_unescape"
  /\ codec.stage = "done"
  /\ Len(codec.arg) = 16
  /\ codec.dry.r = 8
  /\ codec.written = <<8, 12, 10, 13, 9, 92, 47, 34, 0>>

\* 0123456789abcdef
HexChars == <<48, 49, 50, 51, 52, 53, 54, 55, 56, 57, 97, 98, 99, 100, 101, 102>>

\* what the encoding of byte b has to be: the byte itself when alphanumeric
\* or one of - _ . ~, else % and the two hex digits of b
PercentEncoded(b) ==
  IF isalnum(b) \/ b \in {45, 95, 46, 126} THEN <<b>>
  ELSE <<37, HexChars[(b \div 16) + 1], HexChars[(b % 16) + 1]>>

RECURSIVE PercentEncodedText(_, _)
PercentEncodedText(s, i) ==
  IF i > Len(s) THEN << >>
  ELSE PercentEncoded(s[i]) \o PercentEncodedText(s, i + 1)

\* C30: url_encode copies alphanumerics and - _ . ~ and turns every other
\* byte, those from 0x80 on included, into % and its two hex digits, so that
\* url_decode(url_encode(s)) = s.
C30_UrlRoundTrip ==
  codec.fn = "url_encode" =>
    /\ codec.stage \in {"encoded", "done"} =>
         codec.text = PercentEncodedText(codec.arg, 1)
    /\ codec.stage = "done" => codec.written = codec.arg

\* the same where plain char is unsigned, and for the bytes below 0x80
UrlRoundTripNonNegative ==
  (codec.fn = "url_encode"
     /\ (codec.env.charSigned => \A i \in 1..Len(codec.arg) : codec.arg[i] < 128))
    => /\ codec.stage \in {"encoded", "done"} =>
            codec.text = PercentEncodedText(codec.arg, 1)
       /\ codec.stage = "done" => codec.written = codec.arg

(***************************************************************************)
(* url_decode on texts whose escapes may be cut short                      *)
(***************************************************************************)

\* the '%' bytes of s from index i on that url_decode takes as the start of
\* an escape: the two bytes after such a '%' belong to it
RECURSIVE EscapeStarts(_, _)
EscapeStarts(s, i) ==
  IF i > Len(s) THEN {}
  ELSE IF s[i] = 37 THEN {i} \cup EscapeStarts(s, i + 3)
  ELSE EscapeStarts(s, i + 1)

\* every '%' of s is followed by at least two more characters
EscapesComplete(s) == \A i \in 1..Len(s) : s[i] = 37 => i + 2 <= Len(s)

UrlDecoded == codec.fn = "url_decode" /\ codec.stage = "done"

\* C31 as stated: url_decode reads the two bytes after every '%'
\* unconditionally: for an input whose last character is '%' it reads a byte
\* past the terminator, and for every input in which each '%' is followed by
\* at least two more characters all reads stay inside the buffer.
C31_TrailingPercentReadsBeyond ==
  UrlDecoded =>
    /\ (Len(codec.arg) > 0 /\ codec.arg[Len(codec.arg)] = 37)
         => (Len(codec.arg) + 2) \in codec.reads
    /\ EscapesComplete(codec.arg) => codec.reads \subseteq 1..(Len(codec.arg) + 1)

\* C31: url_decode reads the two bytes after every '%' that starts an escape:
\* it reads the byte past the terminator exactly when the last character is
\* such a '%' (a '%' that is itself one of the two bytes of an earlier escape
\* starts none), and for every input in which each '%' is followed by at
\* least two more characters all reads stay inside the buffer.
C31_EscapeStartReadsBeyond ==
  UrlDecoded =>
    /\ (Len(codec.arg) + 2) \in codec.reads
         <=> Len(codec.arg) \in EscapeStarts(codec.arg, 1)
    /\ codec.reads \subseteq 1..(Len(codec.arg) + 2)
    /\ EscapesComplete(codec.arg) => codec.reads \subseteq 1..(Len(codec.arg) + 1)

\* "a%" decoded: the byte after the terminator was read
C31_Witness ==
  /\ UrlDecoded
  /\ codec.arg = <<97, 37>>
  /\ 4 \in codec.reads

(***************************************************************************)
(* The close button: webview_set_hide_on_close and the close request       *)
(***************************************************************************)

MaxSets == 2       \* webview_set_hide_on_close calls
MaxCloses == 2     \* close requests

\* webview_set_hide_on_close(w, hide_on_close): m_hide_on_close = hide_on_close
set_hide_on_close(w, hide_on_close) ==
  [w EXCEPT !.m_hide_on_close = IF hide_on_close THEN "on" ELSE "off"]

\* what a read of m_hide_on_close yields: a bool never written holds any value
ReadFlag(w) ==
  IF w.m_hide_on_close = "indeterminate" THEN {"on", "off"}
  ELSE {w.m_hide_on_close}

SetHideOnClose(b) ==
  /\ ~destroyed
  /\ win.sets < MaxSets
  /\ win' = [set_hide_on_close(win, b) EXCEPT !.sets = win.sets + 1]
  /\ UNCHANGED <<engine, m_main_thread, loop, mq, quit, terminators, destroyed,
                 posted, ran>>
  /\ UNCHANGED <<bridgeVars, bindVars, scan, codec>>

\* webview_show
Show ==
  /\ ~destroyed
  /\ win.window = "hidden"
  /\ win' = [win EXCEPT !.window = "shown"]
  /\ UNCHANGED <<engine, m_main_thread, loop, mq, quit, terminators, destroyed,
                 posted, ran>>
  /\ UNCHANGED <<bridgeVars, bindVars, scan, codec>>

\* the close button, handled on the loop's thread.  win32: WM_CLOSE hides the
\* window or calls DestroyWindow, whose WM_DESTROY calls terminate(); gtk:
\* "delete-event" runs on_window_close, which hides the window or returns
\* FALSE, so that the window is destroyed and "destroy" calls terminate()
WindowClose ==
  /\ loop.state = "running"
  /\ win.window = "shown"
  /\ win.closes < MaxCloses
  /\ \E seen \in ReadFlag(win) :
       \E q \in {IF seen = "on" THEN quit ELSE terminate(quit, loop.thread)} :
         /\ quit' = q
         /\ win' = [win EXCEPT
               !.window = IF seen = "on" THEN "hidden" ELSE "destroyed",
               !.closes = win.closes + 1,
               !.closed = [flag |-> win.m_hide_on_close,
                           outcome |-> IF seen = "on" THEN "hidden"
                                       ELSE "destroyed",
                           quitBefore |-> quit[LoopSource],
                           quit |-> q[LoopSource]]]
  /\ UNCHANGED <<engine, m_main_thread, loop, mq, terminators, destroyed,
                 posted, ran>>
  /\ UNCHANGED <<bridgeVars, bindVars, scan, codec>>

CloseNext ==
  \/ \E b \in BOOLEAN : SetHideOnClose(b)
  \/ Show
  \/ WindowClose
  \/ \E t \in Threads : EnterRun(t)
  \/ \E t \in Threads : Terminate(t)
  \/ LoopExit

CloseSpec == LifeInit /\ [][CloseNext]_vars

\* the hide-on-close setting the documentation gives a webview: what the most
\* recent webview_set_hide_on_close call said, off when there was none
SettingOf(flag) == IF flag = "on" THEN "on" ELSE "off"

\* C32: a close request hides the window and leaves the loop running exactly
\* when hide-on-close was enabled by the most recent
\* webview_set_hide_on_close call; otherwise it destroys the window and
\* terminates the loop; when the function was never called the flag is off
\* and close terminates the loop.
C32_CloseFollowsFlag ==
  win.closes > 0 =>
    IF SettingOf(win.closed.flag) = "on"
    THEN win.closed.outcome = "hidden" /\ win.closed.quit = win.closed.quitBefore
    ELSE win.closed.outcome = "destroyed" /\ win.closed.quit

\* the same for a webview on which webview_set_hide_on_close was called
CloseFollowsFlagOnceSet ==
  (win.closes > 0 /\ win.closed.flag # "indeterminate") =>
    IF win.closed.flag = "on"
    THEN win.closed.outcome = "hidden" /\ win.closed.quit = win.closed.quitBefore
    ELSE win.closed.outcome = "destroyed" /\ win.closed.quit

(***************************************************************************)
(* The binding table under on_message and resolve                          *)
(***************************************************************************)

\* a step of on_message, of resolve or of the closure it posted
MessageOrResolveStep ==
  \/ last' # last
  \/ thr' # thr
  \/ resolveCalls' # resolveCalls
  \/ Len(queue') < Len(queue)

\* C33: on_message, for a known, an unknown or a malformed message, and
\* resolve leave the binding table unchanged; only bind changes it, and a
\* name once bound stays bound.
C33_OnlyBindChangesBindings ==
  [][ /\ MessageOrResolveStep => bindings' = bindings
      /\ bindings' # bindings => Len(binds') = Len(binds) + 1
      /\ DOMAIN bindings \subseteq DOMAIN bindings' ]_vars

\* a message naming no binding was handled, a resolution was posted, and the
\* name bound before is still bound
C33_Witness ==
  /\ last.n > 0
  /\ last.msg \in RawMsgs
  /\ last.invoked = << >>
  /\ resolveCalls # << >>
  /\ N_add \in DOMAIN bindings

(***************************************************************************)
(* json_parse_c on documents whose members are strings, literals and       *)
(* nested containers                                                       *)
(***************************************************************************)

MaxDepth == 3      \* containers nested inside a member value

\* a container of the given shape holding n - 1 further containers: objects
\* {"k":...,"b":8}, arrays [...,"b"], or the two in turn; the innermost
\* value is 7
RECURSIVE Nested(_, _)
Nested(shape, n) ==
  LET below == CASE shape = "objarr" -> "arrobj"
                 [] shape = "arrobj" -> "objarr"
                 [] OTHER -> shape
      inner == IF n = 1 THEN <<55>> ELSE Nested(below, n - 1)
  IN  IF shape \in {"object", "objarr"}
      THEN <<123>> \o Quoted(<<107>>) \o <<58>> \o inner \o <<44>>
             \o Quoted(<<98>>) \o <<58, 56, 125>>
      ELSE <<91>> \o inner \o <<44>> \o V_b \o <<93>>

NestedValues ==
  { Nested(shape, n) : shape \in {"object", "array", "objarr", "arrobj"},
                       n \in 1..MaxDepth }

MemberValues == {V_1, V_true, V_b} \cup NestedValues

NestDocs ==
  { [kind |-> "object", ms |-> <<Member(<<97>>, v), Member(<<98>>, w)>>] :
      v \in MemberValues, w \in MemberValues }
    \cup
  { [kind |-> "object",
     ms |-> <<Member(<<97>>, v), Member(<<99>>, w), Member(<<98>>, V_1)>>] :
      v \in MemberValues, w \in MemberValues }
    \cup
  { [kind |-> "array",
     ms |-> <<Member(<< >>, v), Member(<< >>, w), Member(<< >>, <<57>>)>>] :
      v \in MemberValues, w \in MemberValues }

\* keys a, b, c, k (only inside nested objects) and z; indices on arrays
NestQueries(kind) ==
  IF kind = "object"
  THEN { [key |-> k, keysz |-> Len(k)] :
           k \in {<<97>>, <<98>>, <<99>>, <<107>>, <<122>>} }
  ELSE { [key |-> NULL, keysz |-> i] : i \in 0..MaxIndex }

NestInit ==
  /\ BridgeInit
  /\ engine = "any"
  /\ LifeIdle
  /\ codec = NoCodec
  /\ \E d \in NestDocs :
       \E q \in NestQueries(d.kind), r \in {Render(d, "compact")} :
         scan = [ text |-> r.text, key |-> q.key, keysz |-> q.keysz,
                  doc |-> [kind |-> r.kind, keys |-> r.keys, spans |-> r.spans],
                  st |-> json_init(Len(r.text), q.key, q.keysz) ]

NestSpec == NestInit /\ [][ScanNext]_vars

\* the members whose key is the key searched
MembersNamed == { i \in 1..Len(scan.doc.keys) : scan.key = scan.doc.keys[i] }

\* C34: only direct children of the outermost container are candidates: a
\* key that occurs only inside a nested object is never matched, elements of
\* a nested container are never counted as positions, and a nested container
\* that is the sought value is returned as one span from its opening to its
\* matching closing bracket, at every nesting depth.
C34_OnlyDirectChildren ==
  scan.st.done =>
    /\ (scan.doc.kind = "object" /\ scan.key # NULL) =>
         IF MembersNamed = {} THEN scan.st.ret = -1
         ELSE \A i \in MembersNamed : ReturnsMember(i)
    /\ (scan.doc.kind = "array" /\ scan.key = NULL) =>
         IF scan.keysz < Len(scan.doc.spans)
         THEN ReturnsMember(scan.keysz + 1)
         ELSE scan.st.ret = -1

\* the key k, which occurs only inside the nested objects of a member's
\* value, was searched and not found
C34_Witness ==
  /\ scan.st.done
  /\ scan.key = <<107>>
  /\ scan.doc.kind = "object"
  /\ Span(scan.text, scan.doc.spans[1].start,
          scan.doc.spans[1].start + scan.doc.spans[1].len - 1)
       = Nested("object", MaxDepth)
  /\ scan.st.ret = -1

\* the first byte of the key of member i in the compact layout
KeyStart(i) == scan.doc.spans[i].start - Len(scan.doc.keys[i]) - 3

\* C38: in key search on a valid object only member keys are compared with
\* the target: a string value whose text equals the target key is never
\* taken as a key, so that the value of the member named by the key is
\* returned, whatever strings, literals and nested values come before it.
C38_OnlyMemberKeysCompared ==
  (scan.doc.kind = "object" /\ scan.key # NULL) =>
    /\ scan.st.k # 0 => \E i \in 1..Len(scan.doc.keys) : scan.st.k = KeyStart(i)
    /\ scan.st.done => \A i \in 1..Len(scan.doc.keys) :
                          KeyOfMember(i) => ReturnsMember(i)

\* {"a":"b","b":1} searched for b yields 1
C38_Witness ==
  /\ scan.st.done
  /\ scan.text = <<123, 34, 97, 34, 58, 34, 98, 34, 44, 34, 98, 34, 58, 49, 125>>
  /\ scan.key = <<98>>
  /\ scan.st.ret = 0
  /\ Span(scan.text, scan.st.value, scan.st.value + scan.st.valuesz - 1) = V_1

(***************************************************************************)
(* json_parse_c: progress of the scan, and the depth counter               *)
(***************************************************************************)

\* what is left to do: two examinations per remaining byte, one less once
\* the byte at s is known to end a literal
ScanMeasure(st) == 2 * st.sz - (IF st.state = "LITERAL" THEN 0 ELSE 1)

\* C35: json_parse_c terminates on every finite buffer in a single forward
\* pass: the only backward step is the one-byte step back at the end of a
\* literal, after which the byte examined again is consumed in the VALUE
\* state, so every byte is examined at most twice and the scan never loops
\* on a byte.
C35_ScanTerminates ==
  /\ [](\A i \in DOMAIN scan.examined : scan.examined[i] <= 2)
  /\ [][ (~scan.st.done /\ ~scan'.st.done) =>
           /\ scan'.st.pos \in {scan.st.pos, scan.st.pos + 1}
           /\ scan'.st.pos = scan.st.pos =>
                (scan.st.state = "LITERAL" /\ scan'.st.state = "VALUE")
           /\ scan.st.state = "VALUE" => scan'.st.pos = scan.st.pos + 1
           /\ ScanMeasure(scan'.st) < ScanMeasure(scan.st) ]_vars
  /\ <>(scan.st.done)

\* a scan that ended after it examined the byte behind a literal twice
C35_Witness ==
  /\ scan.st.done
  /\ \E i \in DOMAIN scan.examined :
       /\ scan.examined[i] = 2
       /\ scan.text[i] = 44
       /\ scan.text[i - 1] = 49

\* the brackets of t[1..n] outside strings: opening ones minus closing ones
RECURSIVE Balance(_, _)
Balance(t, n) ==
  IF n = 0 THEN 0
  ELSE Balance(t, n - 1) + (IF t[n] \in {91, 123} THEN 1
                            ELSE IF t[n] \in {93, 125} THEN -1 ELSE 0)

\* some closing bracket in front of index n has no opening one
UnbalancedBefore(t, n) == \E j \in 1..(n - 1) : Balance(t, j) < 0

\* C39: the depth counter never drops below 0: a closing } or ] met at depth
\* 0 aborts the scan, so that no value is ever matched after an unbalanced
\* closer.
C39_DepthNeverNegative ==
  /\ scan.st.depth >= 0
  /\ (scan.st.done /\ scan.st.ret = 0 /\ scan.doc.malformed = "closer")
       => ~UnbalancedBefore(scan.text, scan.st.value)

\* the depth counter is the balance of the brackets examined, below 0 too
DepthIsBalance ==
  (scan.doc.malformed = "closer" /\ ~scan.st.done)
    => scan.st.depth = Balance(scan.text, scan.st.pos - 1)

(***************************************************************************)
(* json_parse: what it returns after the scan                              *)
(***************************************************************************)

\* ["a\nb",1]  ["A"]  [""]  [true,"x"]  [tru  ["x\  {"a":"\"\\","1":[1,2]}
ParseBuffers ==
  { <<91, 34, 97, 92, 110, 98, 34, 44, 49, 93>>,
    <<91, 34, 92, 117, 48, 48, 52, 49, 34, 93>>,
    <<91, 34, 34, 93>>,
    <<91, 116, 114, 117, 101, 44, 34, 120, 34, 93>>,
    <<91, 116, 114, 117>>,
    <<91, 34, 120, 92>>,
    <<123, 34, 97, 34, 58>> \o V_esc \o <<44, 34, 49, 34, 58>> \o V_arr \o <<125>> }

ParseInit ==
  /\ BridgeInit
  /\ engine = "any"
  /\ LifeIdle
  /\ codec = NoCodec
  /\ \E q \in RawQueries :
       \E t \in ParseBuffers \cup ShortBuffers
                  \cup { b.text : b \in MalformedBuffers } :
         scan = RawScan(t, q, [kind |-> "raw", keys |-> << >>,
                               spans |-> << >>, malformed |-> "unknown"])

\* json_parse after json_parse_c has returned: the result is built from
\* value and value_sz
ParseReturn ==
  /\ scan.st.done
  /\ ~scan.returned
  /\ scan' = [scan EXCEPT !.returned = TRUE,
                          !.parsed = json_parse_value(scan.text,
                                                      json_result(scan.st))]
  /\ UNCHANGED <<bridgeVars, bindVars, lifeVars, codec>>

ParseNext == RawStep \/ RawEnd \/ ParseReturn

ParseSpec == ParseInit /\ [][ParseNext]_vars

\* the span that json_parse_c matched
Matched == Span(scan.text, scan.st.value, scan.st.value + scan.st.valuesz - 1)

\* C37: json_parse returns the empty string whenever json_parse_c fails (not
\* found, malformed input, buffer ended inside the sought value) and
\* whenever the matched string cannot be unescaped; for a successful match
\* it returns the raw span of a value that is no string and the unescaped
\* content of a string.
C37_ParseReturns ==
  scan.returned =>
    IF scan.st.ret # 0 THEN scan.parsed = << >>
    ELSE IF Matched[1] # 34 THEN scan.parsed = Matched
    ELSE IF HasUnsupportedEscape(Span(Matched, 2, Len(Matched) - 1), 1)
         THEN scan.parsed = << >>
    ELSE scan.parsed = Decoded(Span(Matched, 2, Len(Matched) - 1), 1)

\* the buffer ended inside the sought string: the scan failed with value set,
\* and json_parse returned the empty string
C37_Witness ==
  /\ scan.returned
  /\ scan.st.ret = -1
  /\ scan.st.value # 0
  /\ scan.text[scan.st.value] = 34
  /\ scan.parsed = << >>

(***************************************************************************)
(* on_message on envelopes that lack a field                               *)
(***************************************************************************)

\* {"id":1,"method":name}, {"method":name,"params":[2,3]} and
\* {"method":name}; in env a missing id is 0 and missing params are empty
PartialEnvelopes(name) ==
  { [text |-> <<123>> \o Quoted(K_id) \o <<58>> \o DecText(1) \o <<44>>
                \o Quoted(K_method) \o <<58>> \o Quoted(name) \o <<125>>,
     env |-> [wf |-> FALSE, id |-> 1, method |-> name, params |-> << >>]],
    [text |-> <<123>> \o Quoted(K_method) \o <<58>> \o Quoted(name) \o <<44>>
                \o Quoted(K_params) \o <<58>> \o A_23 \o <<125>>,
     env |-> [wf |-> FALSE, id |-> 0, method |-> name, params |-> A_23]],
    [text |-> <<123>> \o Quoted(K_method) \o <<58>> \o Quoted(name) \o <<125>>,
     env |-> [wf |-> FALSE, id |-> 0, method |-> name, params |-> << >>]] }

PartialMsgs == UNION { PartialEnvelopes(n) : n \in Names \cup {N_nop} }

EnvelopeNext ==
  \/ \E n \in Names, c \in BindChoices : Bind(n, c[1], c[2])
  \/ \E n \in Names : BindSync(n, "echo")
  \/ Run
  \/ LoadPage
  \/ \E m \in PartialMsgs : JSInvoke(m)
  \/ OnMessage
  \/ \E t \in Workers, s \in handed, c \in ResolveChoices :
        ResolveBegin(t, s, c[1], c[2])
  \/ \E t \in Workers : ResolvePost(t)
  \/ RunClosure

EnvelopeSpec == Init /\ [][EnvelopeNext]_vars

\* C36: dispatch depends only on the method field: an envelope that names a
\* registered method but lacks "params" or "id" still invokes the callback
\* exactly once, with the empty string for the missing field; one that names
\* no registered method invokes nothing.
C36_PartialEnvelopeInvokes ==
  [][ (Delivered /\ Head(channel) \in PartialMsgs)
      => LET e == Head(channel).env
         IN  IF e.method \in DOMAIN bindings
             THEN last'.invoked =
                    << [f   |-> bindings[e.method].f,
                        seq |-> IF e.id = 0 THEN << >> ELSE DecText(e.id),
                        req |-> e.params,
                        arg |-> bindings[e.method].arg] >>
             ELSE last'.invoked = << >> ]_vars

\* an envelope without id was delivered and its callback invoked with the
\* empty sequence text
C36_Witness ==
  /\ last.n > 0
  /\ last.msg \in PartialMsgs
  /\ last.msg.env.id = 0
  /\ last.msg.env.params = A_23
  /\ Len(last.invoked) = 1
  /\ last.invoked[1].seq = << >>
  /\ last.invoked[1].req = A_23

(***************************************************************************)
(* Calls and resolutions across page loads                                 *)
(***************************************************************************)

MaxLoads == 2      \* page loads

\* webview_navigate, or a reload: the scripts registered with init() run
\* again on the new document, window._rpc starts over with nextSeq = 1
Navigate ==
  /\ running
  /\ page.loaded
  /\ page.gen < MaxLoads
  /\ page' = LoadedPage(page.gen + 1, init_js)
  /\ UNCHANGED <<running, bindings, init_js, promises, channel, queue, thr,
                 handed, evals, resolveCalls, last>>
  /\ UNCHANGED <<bindVars, lifeVars, scan, codec>>

\* every message comes from a call of a bound function: the call that
\* created promise p posted the p-th message
ReloadNext ==
  \/ \E n \in Names, c \in BindChoices : Bind(n, c[1], c[2])
  \/ \E n \in Names : BindSync(n, "echo")
  \/ Run
  \/ LoadPage
  \/ Navigate
  \/ \E n \in Names, a \in ArgTexts : JSCall(n, a)
  \/ OnMessage
  \/ \E t \in Workers, s \in handed, c \in ResolveChoices :
        ResolveBegin(t, s, c[1], c[2])
  \/ \E t \in Workers : ResolvePost(t)
  \/ RunClosure

ReloadSpec == Init /\ [][ReloadNext]_vars

\* C40: a resolution settles only the promise of the call that produced its
\* sequence number, also across page loads: a promise is never settled by
\* the resolution of a call of the page before, so it is never settled
\* before its own call has been delivered to on_message.
C40_SettledOnlyByOwnCall ==
  \A p \in 1..Len(promises) :
    promises[p].state # "pending" => last.n >= p

\* the same for the calls made on the first page
SettledOnlyByOwnCallFirstPage ==
  \A p \in 1..Len(promises) :
    (promises[p].state # "pending" /\ promises[p].gen = 1) => last.n >= p

====
